---- MODULE Spec2Model ----
(***************************************************************************)
(* Prompt Library browser extension: the Template Manager                  *)
(* (src/services/templateManager.js), the storage service it sits on       *)
(* (src/services/storage.js), the template utilities (src/utils/           *)
(* template.js) and the shipped schema (src/constants/schema.js).          *)
(*                                                                         *)
(* JavaScript values are modelled as tagged records [t, v]: t is the       *)
(* value's kind ("string", "number", "null", "undefined", "array") and v   *)
(* its content.  A property that an object does not have reads as          *)
(* undefined, exactly as in JavaScript.  Scalar positions (id, name, body, *)
(* key, label, ...) carry a string in v; array positions (variables,       *)
(* options) carry a sequence in v.                                         *)
(***************************************************************************)
EXTENDS Integers, Sequences, FiniteSets, TLC

VARIABLES
  storage,            \* chrome.storage.sync, the "templates" key: [present, value]
  DEFAULT_TEMPLATES,  \* the in-memory array exported by schema.js (a mutable JS array)
  generated,          \* how many ids crypto.randomUUID() has handed out
  writeFailures,      \* how many writes chrome.storage.sync has rejected
  calls,              \* how many calls have been made
  last,               \* the last manager call: its arguments, what it read, its outcome
  pending,            \* the manager calls in flight: what each has read and is about to write
  controller,         \* the options page: OptionsController's templates, modal and status
  popup,              \* the popup: the inject button and the injections it has started
  content             \* the content script of a ChatGPT page: its timer, its badge, its messages

vars == <<storage, DEFAULT_TEMPLATES, generated, writeFailures, calls, last,
          pending, controller, popup, content>>

\* the state of the pages, which the Template Manager on its own leaves alone
pages == <<pending, controller, popup, content>>

(***************************************************************************)
(* Bounds of the model.                                                    *)
(***************************************************************************)
\* longest collection the model lets add / duplicate build
MaxTemplates == 5
\* number of ids the model lets crypto.randomUUID() generate
MaxGenerated == 4
\* number of writes the model lets chrome.storage.sync reject
MaxWriteFailures == 1
\* number of calls in a run of the model
MaxCalls == 3

(***************************************************************************)
(* JavaScript values.                                                      *)
(***************************************************************************)
Undef == [t |-> "undefined", v |-> ""]
Null == [t |-> "null", v |-> ""]
Str(s) == [t |-> "string", v |-> s]
\* a number, kept by its numeral
Num(n) == [t |-> "number", v |-> n]
Arr(a) == [t |-> "array", v |-> a]
\* a non-array value in an array position (variables, options): only its kind matters
NotArr(kind) == [t |-> kind, v |-> <<>>]

\* typeof x
TypeOf(x) == IF x.t \in {"null", "array", "object"} THEN "object" ELSE x.t

\* !x
Falsy(x) ==
  \/ x.t \in {"undefined", "null"}
  \/ x.t = "string" /\ x.v = ""
  \/ x.t = "number" /\ x.v \in {"0", "NaN"}

\* a === b on scalars
StrictEq(a, b) == a.t = b.t /\ a.v = b.v

\* String(x), as a template literal `${x}` computes it
ToStr(x) == IF x.t \in {"string", "number"} THEN x.v ELSE x.t

\* Array.isArray(x)
IsArray(x) == x.t = "array"

Template(id, name, body, variables) ==
  [t |-> "object", id |-> id, name |-> name, body |-> body, variables |-> variables]

Variable(key, label, placeholder, type, options) ==
  [t |-> "object", key |-> key, label |-> label, placeholder |-> placeholder,
   type |-> type, options |-> options]

\* a value that is not an object where a template or a variable is expected
\* (null, a string, a number): every property of it reads as undefined
NonObjectTemplate(kind) ==
  [t |-> kind, id |-> Undef, name |-> Undef, body |-> Undef, variables |-> NotArr("undefined")]

NonObjectVariable(kind) ==
  [t |-> kind, key |-> Undef, label |-> Undef, placeholder |-> Undef,
   type |-> Undef, options |-> NotArr("undefined")]

(***************************************************************************)
(* src/constants/schema.js: the shipped default templates, with their ids, *)
(* names and declared variables.  The two long multi-line bodies are       *)
(* shortened to their first placeholder lines, and of the thirty variables *)
(* of "blog-post", all of one shape, the first two and the last are kept.  *)
(***************************************************************************)
DefaultVariable(key, label, placeholder) ==
  Variable(Str(key), Str(label), placeholder, Undef, NotArr("undefined"))

ShippedTemplates ==
  << Template(Str("seo-brief"), Str("SEO Brief"),
       Str("Create an SEO content brief for {{topic}} targeting {{audience}}. Include H2s and FAQs."),
       Arr(<< DefaultVariable("topic", "Topic", Undef),
       DefaultVariable("audience", "Audience", Undef) >>)),
     Template(Str("code-review"), Str("Code Review"),
       Str("Review this {{stack}} code for performance, readability, and security. Suggest diffs."),
       Arr(<< DefaultVariable("stack", "Tech Stack", Str("Angular, NestJS")) >>)),
     Template(Str("prompt-template"), Str("Prompt Template"),
       Str("## Title Generate a user-friendly prompt template with editable variables for {{target_task}}"),
       Arr(<< DefaultVariable("target_task", "Target Task", Str("Write a blog post about remote work productivity tips")) >>)),
     Template(Str("blog-post"), Str("Blog Post"),
       Str("## Title Write a blog post about {{topic}} ## Role You are a skilled {{role}}"),
       Arr(<< DefaultVariable("topic", "Topic", Str("Write a blog post about remote work productivity tips")),
       DefaultVariable("role", "Role", Str("Professional writer")),
       DefaultVariable("reference_examples", "Reference Examples", Str("Harvard Business Review, Trello Blog, Zapier's Remote Work Guide")) >>)) >>

(***************************************************************************)
(* src/utils/template.js: validateTemplate.                                *)
(***************************************************************************)
\* the errors validateTemplate's forEach pushes for the variable at JS index `index`
VariableErrors(variable, index) ==
  IF Falsy(variable) \/ TypeOf(variable) # "object"
    THEN << "Variable at index " \o ToString(index) \o " must be an object" >>
  ELSE IF Falsy(variable.key) \/ TypeOf(variable.key) # "string"
    THEN << "Variable at index " \o ToString(index) \o " must have a valid string key" >>
  ELSE
    (IF ~Falsy(variable.type) /\ variable.type \notin {Str("text"), Str("select")}
       THEN << "Variable \"" \o variable.key.v \o "\" has invalid type (expected 'text' or 'select')" >>
       ELSE << >>)
    \o
    (IF variable.type = Str("select")
       THEN IF ~IsArray(variable.options)
              THEN << "Variable \"" \o variable.key.v \o "\" options must be an array when type is 'select'" >>
            ELSE IF ~(\A i \in 1..Len(variable.options.v) : TypeOf(variable.options.v[i]) = "string")
              THEN << "Variable \"" \o variable.key.v \o "\" options must be strings" >>
            ELSE << >>
       ELSE << >>)

RECURSIVE VariablesErrors(_, _)
\* the errors of variables[from..], in index order
VariablesErrors(variables, from) ==
  IF from > Len(variables) THEN << >>
  ELSE VariableErrors(variables[from], from - 1) \o VariablesErrors(variables, from + 1)

\* as validateTemplate, without the check of the body
validateTemplate_SkipsBody(template) ==
  IF Falsy(template) \/ TypeOf(template) # "object"
    THEN [isValid |-> FALSE, errors |-> << "Template must be an object" >>]
  ELSE
    LET errors ==
          (IF Falsy(template.id) \/ TypeOf(template.id) # "string"
             THEN << "Template must have a valid string ID" >> ELSE << >>)
          \o
          (IF Falsy(template.name) \/ TypeOf(template.name) # "string"
             THEN << "Template must have a valid string name" >> ELSE << >>)
          \o
          (IF ~IsArray(template.variables)
             THEN << "Template variables must be an array" >>
             ELSE VariablesErrors(template.variables.v, 1))
    IN [isValid |-> Len(errors) = 0, errors |-> errors]

validateTemplate(template) ==
  IF Falsy(template) \/ TypeOf(template) # "object"
    THEN [isValid |-> FALSE, errors |-> << "Template must be an object" >>]
  ELSE
    LET errors ==
          (IF Falsy(template.id) \/ TypeOf(template.id) # "string"
             THEN << "Template must have a valid string ID" >> ELSE << >>)
          \o
          (IF Falsy(template.name) \/ TypeOf(template.name) # "string"
             THEN << "Template must have a valid string name" >> ELSE << >>)
          \o
          (IF Falsy(template.body) \/ TypeOf(template.body) # "string"
             THEN << "Template must have a valid string body" >> ELSE << >>)
          \o
          (IF ~IsArray(template.variables)
             THEN << "Template variables must be an array" >>
             ELSE VariablesErrors(template.variables.v, 1))
    IN [isValid |-> Len(errors) = 0, errors |-> errors]

(***************************************************************************)
(* src/utils/template.js: placeholders.  A JavaScript string is a TLA+     *)
(* string; the regular expression /{{\s*([\w.-]+)\s*}}/g is matched as the *)
(* engine matches it: the character classes \s, [\w.-] and the braces are  *)
(* disjoint, so at a given start there is at most one way to match.        *)
(***************************************************************************)
\* the characters start..end of a string, as far as it has them
slice(string, start, end) ==
  LET from == IF start < 1 THEN 1 ELSE start
      to == IF end > Len(string) THEN Len(string) ELSE end
  IN IF from > to THEN "" ELSE SubSeq(string, from, to)

\* the character at position p of a string ("" past its end)
charAt(string, p) == IF p \in 1..Len(string) THEN slice(string, p, p) ELSE ""

\* \s
WhiteSpace == {" ", "\n", "\t", "\r"}

\* [\w.-]
KeyChars ==
  { "a", "b", "c", "d", "e", "f", "g", "h", "i", "j", "k", "l", "m", "n", "o", "p", "q",
    "r", "s", "t", "u", "v", "w", "x", "y", "z", "A", "B", "C", "D", "E", "F", "G", "H",
    "I", "J", "K", "L", "M", "N", "O", "P", "Q", "R", "S", "T", "U", "V", "W", "X", "Y",
    "Z", "0", "1", "2", "3", "4", "5", "6", "7", "8", "9", "_", ".", "-" }

RECURSIVE skip(_, _, _)
\* the first position at or after p whose character is not in `class` (a greedy class*)
skip(string, p, class) ==
  IF charAt(string, p) \in class THEN skip(string, p + 1, class) ELSE p

\* as matchAt, for the pattern /{{([\w.-]+)}}/ that allows no whitespace round the key
matchAt_NoWhitespace(string, p) ==
  LET keyEnd == skip(string, p + 2, KeyChars)
  IN [matched |-> /\ slice(string, p, p + 1) = "{{"
                  /\ keyEnd > p + 2
                  /\ slice(string, keyEnd, keyEnd + 1) = "}}",
      next |-> keyEnd + 2,
      key |-> slice(string, p + 2, keyEnd - 1)]

\* /{{\s*([\w.-]+)\s*}}/ tried at position p: whether it matches, the position after
\* the match and the captured key
matchAt(string, p) ==
  LET keyStart == skip(string, p + 2, WhiteSpace)
      keyEnd == skip(string, keyStart, KeyChars)
      close == skip(string, keyEnd, WhiteSpace)
  IN [matched |-> /\ slice(string, p, p + 1) = "{{"
                  /\ keyEnd > keyStart
                  /\ slice(string, close, close + 1) = "}}",
      next |-> close + 2,
      key |-> slice(string, keyStart, keyEnd - 1)]

\* Object.prototype.hasOwnProperty.call(variables, key); variables is a function on its keys
hasOwnProperty(variables, key) == key \in DOMAIN variables

\* the replacer callback of fillTemplateVariables
replacer(match, key, variables) ==
  IF hasOwnProperty(variables, key) THEN ToStr(variables[key]) ELSE match

RECURSIVE replaceAll(_, _, _)
\* template.replace(/.../g, replacer) from position p on: matches are taken left to
\* right, the search going on after each match
replaceAll(string, p, variables) ==
  IF p > Len(string) THEN ""
  ELSE LET m == matchAt(string, p)
       IN IF m.matched
            THEN replacer(slice(string, p, m.next - 1), m.key, variables)
                   \o replaceAll(string, m.next, variables)
            ELSE charAt(string, p) \o replaceAll(string, p + 1, variables)

fillTemplateVariables(template, variables) ==
  IF Falsy(template) \/ TypeOf(template) # "string" THEN ""
  ELSE replaceAll(template.v, 1, variables)

RECURSIVE match(_, _)
\* templateBody.match(/.../g): the matched substrings from position p on, in order
match(string, p) ==
  IF p > Len(string) THEN << >>
  ELSE LET m == matchAt(string, p)
       IN IF m.matched THEN << slice(string, p, m.next - 1) >> \o match(string, m.next)
          ELSE match(string, p + 1)

RECURSIVE removeBraces(_)
\* match.replace(/[{}]/g, '')
removeBraces(string) ==
  IF string = "" THEN ""
  ELSE (IF charAt(string, 1) \in {"{", "}"} THEN "" ELSE charAt(string, 1))
         \o removeBraces(slice(string, 2, Len(string)))

RECURSIVE trimStart(_)
trimStart(string) ==
  IF charAt(string, 1) \in WhiteSpace THEN trimStart(slice(string, 2, Len(string))) ELSE string

RECURSIVE trimEnd(_)
trimEnd(string) ==
  IF charAt(string, Len(string)) \in WhiteSpace
    THEN trimEnd(slice(string, 1, Len(string) - 1)) ELSE string

\* String.prototype.trim
trim(string) == trimEnd(trimStart(string))

\* as uniqueInOrder, keeping the repetitions
uniqueInOrder_KeepsRepeats(strings) == strings

RECURSIVE uniqueInOrder(_)
\* [...new Set(strings)]: every value once, in the order of first insertion
uniqueInOrder(strings) ==
  IF Len(strings) = 0 THEN << >>
  ELSE LET front == uniqueInOrder(slice(strings, 1, Len(strings) - 1))
           final == strings[Len(strings)]
       IN IF \E i \in 1..Len(front) : front[i] = final THEN front ELSE Append(front, final)

extractVariableKeys(templateBody) ==
  IF Falsy(templateBody) \/ TypeOf(templateBody) # "string" THEN << >>
  ELSE LET matches == match(templateBody.v, 1)
       IN uniqueInOrder([i \in 1..Len(matches) |-> trim(removeBraces(matches[i]))])

RECURSIVE join(_, _)
\* array.join(separator) of an array of strings
join(strings, separator) ==
  IF Len(strings) = 0 THEN ""
  ELSE IF Len(strings) = 1 THEN strings[1]
  ELSE strings[1] \o separator \o join(Tail(strings), separator)

\* src/constants/schema.js: TUNE_PRESETS, a preset's snippet under its key
TUNE_PRESETS ==
  [tune \in {"neutral", "concise", "analytical", "creative", "developer"} |->
     [snippet |->
        CASE tune = "neutral" -> Str("")
          [] tune = "concise" -> Str("Answer in short, direct sentences. Avoid filler.")
          [] tune = "analytical" ->
               Str("Give assumptions, constraints, and a step-by-step reasoning outline.")
          [] tune = "creative" -> Str("Offer 3 distinct angles with fresh metaphors.")
          [] tune = "developer" ->
               Str("Be explicit. Include minimal, production-grade code with comments when needed.")]]

\* as pushTrimmed, pushing the text as it came
pushTrimmed_Untrimmed(parts, text) ==
  IF ~Falsy(text) /\ trim(text.v) # "" THEN Append(parts, text.v) ELSE parts

\* if (text && text.trim()) parts.push(text.trim()), for a string, undefined or null
pushTrimmed(parts, text) ==
  IF ~Falsy(text) /\ trim(text.v) # "" THEN Append(parts, trim(text.v)) ELSE parts

\* tunePresets[tune].snippet when the tune is selected, is not 'neutral' and is a key of
\* the table; undefined otherwise
tuneSnippet(tune, tunePresets) ==
  IF ~Falsy(tune) /\ tune # Str("neutral") /\ tune.v \in DOMAIN tunePresets
    THEN tunePresets[tune.v].snippet
    ELSE Undef

buildPromptText(template, variables, tune, prefix, tunePresets) ==
  IF Falsy(template) \/ Falsy(template.body) THEN ""
  ELSE LET withPrefix == pushTrimmed(<< >>, prefix)
           withTune == pushTrimmed(withPrefix, tuneSnippet(tune, tunePresets))
           filledBody == fillTemplateVariables(template.body, variables)
           parts == pushTrimmed(withTune, Str(filledBody))
       IN join(SelectSeq(parts, LAMBDA part : part # ""), "\n\n")

(***************************************************************************)
(* src/services/storage.js.  chrome.storage.sync answers every read; a     *)
(* write either takes effect as a whole or is rejected (writeOk = FALSE)   *)
(* and changes nothing.  The store hands out and keeps copies, so the only *)
(* array the manager can share with its caller is DEFAULT_TEMPLATES.       *)
(***************************************************************************)
\* getStorageValue(STORAGE_KEYS.TEMPLATES, defaultValue)
getStorageValue(defaultValue) ==
  IF storage.present THEN storage.value ELSE defaultValue

\* the store after setStorageValue(STORAGE_KEYS.TEMPLATES, templates)
setStorageValue(templates, writeOk) ==
  IF writeOk THEN [present |-> TRUE, value |-> Arr(templates)] ELSE storage

(***************************************************************************)
(* src/services/templateManager.js                                         *)
(***************************************************************************)
\* crypto.randomUUID(): the n-th id generated; ids never repeat
randomUUID(n) == "uuid-" \o ToString(n)

getTemplates ==
  LET templates == getStorageValue(Arr(DEFAULT_TEMPLATES))
  IN IF IsArray(templates) THEN templates.v ELSE DEFAULT_TEMPLATES

\* getTemplates() returned the DEFAULT_TEMPLATES array itself, not a copy:
\* push, splice and index assignment on it change DEFAULT_TEMPLATES
ReturnsDefaultsArray == ~storage.present

\* DEFAULT_TEMPLATES after the manager has changed its `templates` array into `changed`
AfterMutation(changed) ==
  IF ReturnsDefaultsArray THEN changed ELSE DEFAULT_TEMPLATES

\* what a manager call leaves behind.  `message` is the message of the Error
\* importTemplates throws; the other operations' errors are told apart by `outcome`
Effect(outcome, store, defaults, gen, returned) ==
  [outcome |-> outcome, storage |-> store, defaults |-> defaults,
   generated |-> gen, returned |-> returned, message |-> ""]

\* throw new Error(message) before anything was changed
Thrown(outcome, message) ==
  [outcome |-> outcome, storage |-> storage, defaults |-> DEFAULT_TEMPLATES,
   generated |-> generated, returned |-> << >>, message |-> message]

\* saveTemplates(templates): validates every record, then writes the whole array
saveTemplates(templates, writeOk) ==
  IF \E i \in 1..Len(templates) : ~validateTemplate(templates[i]).isValid
    THEN [outcome |-> "invalid", storage |-> storage]
  ELSE IF ~writeOk
    THEN [outcome |-> "storage_error", storage |-> storage]
  ELSE [outcome |-> "ok", storage |-> setStorageValue(templates, writeOk)]

\* templates.findIndex(t => t.id === templateId): 0 when there is none
findIndex(templates, templateId) ==
  IF \E i \in 1..Len(templates) : StrictEq(templates[i].id, templateId)
    THEN CHOOSE i \in 1..Len(templates) :
           /\ StrictEq(templates[i].id, templateId)
           /\ \A j \in 1..(i - 1) : ~StrictEq(templates[j].id, templateId)
    ELSE 0

\* templates.some(t => t.id === template.id)
hasDuplicateId(templates, template) ==
  \E i \in 1..Len(templates) : StrictEq(templates[i].id, template.id)

\* as hasDuplicateName, comparing the stored id where the name is meant
hasDuplicateName_ComparesIds(templates, template) ==
  \E i \in 1..Len(templates) : StrictEq(templates[i].id, template.name)

\* templates.some(t => t.name === template.name)
hasDuplicateName(templates, template) ==
  \E i \in 1..Len(templates) : StrictEq(templates[i].name, template.name)

\* addTemplate from the line after `await getTemplates()`: `templates` is the array that
\* was returned and `shared` tells that it is the DEFAULT_TEMPLATES array itself
addTo(templates, shared, template, writeOk) ==
  LET needsId == Falsy(template.id)
      gen == IF needsId THEN generated + 1 ELSE generated
      withId == IF needsId THEN [template EXCEPT !.id = Str(randomUUID(gen))] ELSE template
      pushed == Append(templates, withId)
      saved == saveTemplates(pushed, writeOk)
  IN IF hasDuplicateId(templates, withId)
       THEN Effect("id_conflict", storage, DEFAULT_TEMPLATES, gen, << >>)
     ELSE IF hasDuplicateName(templates, withId)
       THEN Effect("name_conflict", storage, DEFAULT_TEMPLATES, gen, << >>)
     ELSE IF ~validateTemplate(withId).isValid
       THEN Effect("invalid", storage, DEFAULT_TEMPLATES, gen, << >>)
     ELSE Effect(saved.outcome, saved.storage, IF shared THEN pushed ELSE DEFAULT_TEMPLATES,
                 gen, IF saved.outcome = "ok" THEN << withId >> ELSE << >>)

addTemplate(template, writeOk) ==
  addTo(getTemplates, ReturnsDefaultsArray, template, writeOk)

\* as mergeUpdates with the spreads swapped, { ...updates, ...template }
mergeUpdates_TemplateWins(template, updates) == template

\* { ...template, ...updates }: a property of updates overrides the template's
mergeUpdates(template, updates) ==
  LET pick(f) == IF f \in DOMAIN updates THEN updates[f] ELSE template[f]
  IN [t |-> "object", id |-> pick("id"), name |-> pick("name"),
      body |-> pick("body"), variables |-> pick("variables")]

\* templates.some(t => t.id !== templateId && t.name === updatedTemplate.name)
nameConflict(templates, templateId, updatedTemplate) ==
  \E i \in 1..Len(templates) :
    /\ ~StrictEq(templates[i].id, templateId)
    /\ StrictEq(templates[i].name, updatedTemplate.name)

\* as updateTemplate with the save moved above the name check
updateTemplate_SavesBeforeNameCheck(templateId, updates, writeOk) ==
  LET templates == getTemplates
      templateIndex == findIndex(templates, templateId)
      updatedTemplate == [f \in DOMAIN templates[templateIndex] |->
                            IF f \in DOMAIN updates THEN updates[f]
                            ELSE templates[templateIndex][f]]
      assigned == [templates EXCEPT ![templateIndex] = updatedTemplate]
      written == [present |-> TRUE, value |-> Arr(assigned)]
      conflict == \E i \in 1..Len(templates) :
                     /\ ~StrictEq(templates[i].id, templateId)
                     /\ StrictEq(templates[i].name, updatedTemplate.name)
  IN IF templateIndex = 0
       THEN [outcome |-> "not_found", storage |-> storage, defaults |-> DEFAULT_TEMPLATES,
             generated |-> generated, returned |-> << >>, message |-> ""]
     ELSE IF ~validateTemplate(updatedTemplate).isValid
       THEN [outcome |-> "invalid", storage |-> storage, defaults |-> DEFAULT_TEMPLATES,
             generated |-> generated, returned |-> << >>, message |-> ""]
     ELSE IF ~writeOk
       THEN [outcome |-> "storage_error", storage |-> storage, defaults |-> DEFAULT_TEMPLATES,
             generated |-> generated, returned |-> << >>, message |-> ""]
     ELSE IF conflict
       THEN [outcome |-> "name_conflict", storage |-> written, defaults |-> DEFAULT_TEMPLATES,
             generated |-> generated, returned |-> << >>, message |-> ""]
     ELSE [outcome |-> "ok", storage |-> written, defaults |-> DEFAULT_TEMPLATES,
           generated |-> generated, returned |-> << updatedTemplate >>, message |-> ""]

updateTemplate(templateId, updates, writeOk) ==
  LET templates == getTemplates
      templateIndex == findIndex(templates, templateId)
      updatedTemplate == mergeUpdates(templates[templateIndex], updates)
      assigned == [templates EXCEPT ![templateIndex] = updatedTemplate]
      saved == saveTemplates(assigned, writeOk)
  IN IF templateIndex = 0
       THEN Effect("not_found", storage, DEFAULT_TEMPLATES, generated, << >>)
     ELSE IF ~validateTemplate(updatedTemplate).isValid
       THEN Effect("invalid", storage, DEFAULT_TEMPLATES, generated, << >>)
     ELSE IF nameConflict(templates, templateId, updatedTemplate)
       THEN Effect("name_conflict", storage, DEFAULT_TEMPLATES, generated, << >>)
     ELSE Effect(saved.outcome, saved.storage, AfterMutation(assigned), generated,
                 IF saved.outcome = "ok" THEN << updatedTemplate >> ELSE << >>)

\* as splice without the count, templates.splice(templateIndex): the rest goes too
splice_NoCount(templates, templateIndex) == SubSeq(templates, 1, templateIndex - 1)

\* templates.splice(templateIndex, 1)
splice(templates, templateIndex) ==
  SubSeq(templates, 1, templateIndex - 1) \o SubSeq(templates, templateIndex + 1, Len(templates))

\* deleteTemplate from the line after `await getTemplates()`, as addTo
deleteFrom(templates, shared, templateId, writeOk) ==
  LET templateIndex == findIndex(templates, templateId)
      spliced == splice(templates, templateIndex)
      saved == saveTemplates(spliced, writeOk)
  IN IF templateIndex = 0
       THEN Effect("not_found", storage, DEFAULT_TEMPLATES, generated, << >>)
     ELSE Effect(saved.outcome, saved.storage, IF shared THEN spliced ELSE DEFAULT_TEMPLATES,
                 generated, << >>)

deleteTemplate(templateId, writeOk) ==
  deleteFrom(getTemplates, ReturnsDefaultsArray, templateId, writeOk)

\* getTemplateById(templateId): templates.find(...) || null, as an index (0 for null)
getTemplateById(templateId) == findIndex(getTemplates, templateId)

\* as duplicatedTemplate without the name suffix
duplicatedTemplate_NoSuffix(originalTemplate, id) == [originalTemplate EXCEPT !.id = Str(id)]

\* the clone duplicateTemplate builds: { ...original, id: <new>, name: `${original.name} (Copy)` }
duplicatedTemplate(originalTemplate, id) ==
  [originalTemplate EXCEPT !.id = Str(id),
                           !.name = Str(ToStr(originalTemplate.name) \o " (Copy)")]

duplicateTemplate(templateId, writeOk) ==
  LET found == getTemplateById(templateId)
      clone == duplicatedTemplate(getTemplates[found], randomUUID(generated + 1))
  IN IF found = 0
       THEN Effect("not_found", storage, DEFAULT_TEMPLATES, generated, << >>)
     ELSE [addTemplate(clone, writeOk) EXCEPT !.generated = generated + 1]

resetToDefaults(writeOk) ==
  LET saved == saveTemplates(DEFAULT_TEMPLATES, writeOk)
  IN Effect(saved.outcome, saved.storage, DEFAULT_TEMPLATES, generated,
            IF saved.outcome = "ok" THEN DEFAULT_TEMPLATES ELSE << >>)

(***************************************************************************)
(* The textual interchange format.  A JSON document is modelled by its     *)
(* syntax tree: a node [j, v, e] is a string or number (v its content), a  *)
(* null, an array (e its elements) or an object (e its members [k, val],   *)
(* in order).  Garbage is a text JSON.parse rejects.                       *)
(***************************************************************************)
JStr(s) == [j |-> "string", v |-> s, e |-> << >>]
JNum(n) == [j |-> "number", v |-> n, e |-> << >>]
JNull == [j |-> "null", v |-> "", e |-> << >>]
JArr(elements) == [j |-> "array", v |-> "", e |-> elements]
JObj(members) == [j |-> "object", v |-> "", e |-> members]
Garbage == [j |-> "garbage", v |-> "not json", e |-> << >>]
\* what reading a property the object does not have yields
JMissing == [j |-> "missing", v |-> "", e |-> << >>]
Member(k, val) == [k |-> k, val |-> val]

\* JSON.stringify of a value in a scalar position; inside an array undefined becomes null
stringifyScalar(x) ==
  IF x.t = "string" THEN JStr(x.v)
  ELSE IF x.t = "number" THEN (IF x.v = "NaN" THEN JNull ELSE JNum(x.v))
  ELSE IF x.t = "object" THEN JObj(<< >>)
  ELSE JNull

\* JSON.stringify of an object's property: a property whose value is undefined is left out
stringifyProperty(k, x, json) ==
  IF x.t = "undefined" THEN << >> ELSE << Member(k, json) >>

stringifyOptions(x) ==
  IF IsArray(x) THEN JArr([i \in 1..Len(x.v) |-> stringifyScalar(x.v[i])])
  ELSE stringifyScalar([t |-> x.t, v |-> ""])

stringifyVariable(variable) ==
  IF variable.t = "object"
    THEN JObj(stringifyProperty("key", variable.key, stringifyScalar(variable.key))
              \o stringifyProperty("label", variable.label, stringifyScalar(variable.label))
              \o stringifyProperty("placeholder", variable.placeholder,
                                   stringifyScalar(variable.placeholder))
              \o stringifyProperty("type", variable.type, stringifyScalar(variable.type))
              \o stringifyProperty("options", variable.options,
                                   stringifyOptions(variable.options)))
    ELSE stringifyScalar([t |-> variable.t, v |-> ""])

stringifyVariables(x) ==
  IF IsArray(x) THEN JArr([i \in 1..Len(x.v) |-> stringifyVariable(x.v[i])])
  ELSE stringifyScalar([t |-> x.t, v |-> ""])

\* as stringifyTemplate with a replacer that lists id, name and body only
stringifyTemplate_DropsVariables(template) ==
  JObj(<< [k |-> "id", val |-> JStr(template.id.v)],
          [k |-> "name", val |-> JStr(template.name.v)],
          [k |-> "body", val |-> JStr(template.body.v)] >>)

stringifyTemplate(template) ==
  IF template.t = "object"
    THEN JObj(stringifyProperty("id", template.id, stringifyScalar(template.id))
              \o stringifyProperty("name", template.name, stringifyScalar(template.name))
              \o stringifyProperty("body", template.body, stringifyScalar(template.body))
              \o stringifyProperty("variables", template.variables,
                                   stringifyVariables(template.variables)))
    ELSE stringifyScalar([t |-> template.t, v |-> ""])

\* JSON.stringify(templates, null, 2)
JSONstringify(templates) ==
  JArr([i \in 1..Len(templates) |-> stringifyTemplate(templates[i])])

\* object[k] after JSON.parse: the last member named k wins; JMissing when there is none
propertyOf(json, k) ==
  LET members == IF json.j = "object" THEN json.e ELSE << >>
      hits == {i \in 1..Len(members) : members[i].k = k}
  IN IF hits = {} THEN JMissing
     ELSE members[CHOOSE i \in hits : \A h \in hits : h <= i].val

\* the JavaScript kind of a parsed node
kindOf(json) ==
  IF json.j = "missing" THEN "undefined"
  ELSE IF json.j \in {"array", "object"} THEN "object"
  ELSE json.j

parseScalar(json) ==
  IF json.j \in {"string", "number"} THEN [t |-> json.j, v |-> json.v]
  ELSE [t |-> kindOf(json), v |-> ""]

parseOptions(json) ==
  IF json.j = "array" THEN Arr([i \in 1..Len(json.e) |-> parseScalar(json.e[i])])
  ELSE NotArr(kindOf(json))

parseVariable(json) ==
  IF json.j \in {"object", "array"}
    THEN Variable(parseScalar(propertyOf(json, "key")),
                  parseScalar(propertyOf(json, "label")),
                  parseScalar(propertyOf(json, "placeholder")),
                  parseScalar(propertyOf(json, "type")),
                  parseOptions(propertyOf(json, "options")))
    ELSE NonObjectVariable(kindOf(json))

parseVariables(json) ==
  IF json.j = "array" THEN Arr([i \in 1..Len(json.e) |-> parseVariable(json.e[i])])
  ELSE NotArr(kindOf(json))

parseTemplate(json) ==
  IF json.j \in {"object", "array"}
    THEN Template(parseScalar(propertyOf(json, "id")),
                  parseScalar(propertyOf(json, "name")),
                  parseScalar(propertyOf(json, "body")),
                  parseVariables(propertyOf(json, "variables")))
    ELSE NonObjectTemplate(kindOf(json))

\* JSON.parse(jsonString): whether it throws, whether the value is an array, its elements
JSONparse(text) ==
  [throws |-> text.j = "garbage",
   isArray |-> text.j = "array",
   elements |-> IF text.j = "array"
                  THEN [i \in 1..Len(text.e) |-> parseTemplate(text.e[i])]
                  ELSE << >>]

exportTemplates == JSONstringify(getTemplates)

\* as importedTemplates without the new ids
importedTemplates_KeepsIds(templates, gen) == templates

\* templates.map(template => ({ ...template, id: <new> })): record i gets the next new id
importedTemplates(templates, gen) ==
  [i \in 1..Len(templates) |-> [templates[i] EXCEPT !.id = Str(randomUUID(gen + i))]]

\* `Template "${result.template.name || result.template.id}": ${result.validation.errors.join(', ')}`
invalidTemplateLine(template) ==
  "Template \"" \o ToStr(IF Falsy(template.name) THEN template.id ELSE template.name)
    \o "\": " \o join(validateTemplate(template).errors, ", ")

\* invalidTemplates.map(...): one line for each invalid record, in payload order
invalidTemplateLines(templates) ==
  LET invalid == SelectSeq(templates, LAMBDA template : ~validateTemplate(template).isValid)
  IN [i \in 1..Len(invalid) |-> invalidTemplateLine(invalid[i])]

importTemplates(jsonString, writeOk) ==
  LET parsed == JSONparse(jsonString)
      templates == parsed.elements
      invalid == {i \in 1..Len(templates) : ~validateTemplate(templates[i]).isValid}
      imported == importedTemplates(templates, generated)
      gen == generated + Len(templates)
      saved == saveTemplates(imported, writeOk)
  IN IF parsed.throws
       THEN Thrown("parse_error", "Invalid JSON format")
     ELSE IF ~parsed.isArray
       THEN Thrown("not_array", "Templates must be an array")
     ELSE IF \E i \in invalid : templates[i].t = "null"
       \* result.template.name of a null record throws a TypeError while the message is built
       THEN Thrown("type_error", "Cannot read properties of null (reading 'name')")
     ELSE IF invalid # {}
       THEN Thrown("invalid", "Invalid templates found:\n" \o join(invalidTemplateLines(templates), "\n"))
     ELSE Effect(saved.outcome, saved.storage, DEFAULT_TEMPLATES, gen,
                 IF saved.outcome = "ok" THEN imported ELSE << >>)

\* initializeStorage(), run by the popup when it opens.  getExtensionState()
\* fills a missing templates key with the defaults, so only an empty stored
\* array counts as "no templates".  The popup holds its own, untouched copy
\* of the schema module.  A failing write is logged and swallowed.
initializeStorage(writeOk) ==
  LET state == getStorageValue(Arr(ShippedTemplates))
      hasTemplates == ~Falsy(state) /\ Len(state.v) > 0
  IN IF hasTemplates
       THEN Effect("ok", storage, DEFAULT_TEMPLATES, generated, << >>)
     ELSE Effect(IF writeOk THEN "ok" ELSE "swallowed", setStorageValue(ShippedTemplates, writeOk),
                 DEFAULT_TEMPLATES, generated, << >>)

(***************************************************************************)
(* The calls the model makes: the arguments a caller can pass.             *)
(***************************************************************************)
NoVariables == Arr(<< >>)

\* templates handed to addTemplate
AddInputs ==
  << \* options.js addNewTemplate: no id yet
     Template(Undef, Str("New Template"),
              Str("Enter your template here with {{variables}}"), NoVariables),
     \* an id a shipped template has
     Template(Str("seo-brief"), Str("Another Brief"), Str("Brief for {{topic}}"), NoVariables),
     \* a name a shipped template has
     Template(Str("custom-1"), Str("Code Review"), Str("Review {{stack}}"), NoVariables),
     \* no body: fails validation after its id was generated
     Template(Undef, Str("Draft"), Str(""), NoVariables) >>

\* patches handed to updateTemplate: the properties the patch object has
UpdateInputs ==
  << [name |-> Str("Code Review")],
     [id |-> Str("code-review")],
     [name |-> Str("")],
     \* options.js saveTemplateFromModal: { name, body, variables }
     [name |-> Str("Renamed"), body |-> Str("Ask about {{topic}}"),
      variables |-> Arr(<< Variable(Str("topic"), Str("topic"), Str(""), Str("text"),
                                    Arr(<< >>)) >>)] >>

\* a template record of an import file
JTemplate(id, name, body) ==
  JObj(<< Member("id", JStr(id)), Member("name", JStr(name)), Member("body", JStr(body)),
          Member("variables", JArr(<< JObj(<< Member("key", JStr("topic")) >>) >>)) >>)

\* texts handed to importTemplates
ImportInputs ==
  << Garbage,
     JObj(<< Member("templates", JArr(<< >>)) >>),
     JArr(<< >>),
     JArr(<< JTemplate("a", "Twin", "First about {{topic}}"),
             JTemplate("b", "Twin", "Second about {{topic}}") >>),
     JArr(<< JTemplate("seo-brief", "Imported Brief", "Brief on {{topic}}"),
             JObj(<< Member("id", JStr("c")), Member("name", JStr("No Body")),
                     Member("variables", JArr(<< >>)) >>),
             JObj(<< Member("body", JStr("About {{topic}}")),
                     Member("variables", JArr(<< JObj(<< Member("key", JStr("")) >>) >>)) >>) >>),
     JArr(<< JNull >>),
     JArr(<< JTemplate("seo-brief", "Imported Brief", "Brief on {{topic}}"),
             JTemplate("d", "Imported Notes", "Notes on {{topic}}") >>) >>

\* ids handed to updateTemplate, deleteTemplate and duplicateTemplate: two shipped
\* ids and the first generated one; each is absent from some collections
IdInputs == {Str("seo-brief"), Str("code-review"), Str(randomUUID(1))}

\* whether the store takes the next write: the model lets MaxWriteFailures writes fail
WriteOutcomes == IF writeFailures < MaxWriteFailures THEN BOOLEAN ELSE {TRUE}

(***************************************************************************)
(* The state machine.                                                      *)
(***************************************************************************)
Call(op, id, input) == [op |-> op, id |-> id, input |-> input]

\* a call took place: the state becomes what `effect` says and `last` records the call
Apply(call, effect) ==
  /\ calls < MaxCalls
  /\ calls' = calls + 1
  /\ storage' = effect.storage
  /\ DEFAULT_TEMPLATES' = effect.defaults
  /\ generated' = effect.generated
  /\ writeFailures' = IF effect.outcome \in {"storage_error", "swallowed"}
                        THEN writeFailures + 1 ELSE writeFailures
  /\ last' = [op |-> call.op, id |-> call.id, input |-> call.input,
              outcome |-> effect.outcome, returned |-> effect.returned,
              message |-> effect.message]
  /\ UNCHANGED pages

\* no manager call has been started
NoCalls == << >>

\* this.modal of the options page while the modal is closed: index 0 stands for null
\* (rows count from 1), name and body are the values of its two fields
ClosedModal == [isOpen |-> FALSE, index |-> 0, name |-> "", body |-> "", varsByKey |-> << >>]

\* the options page before new OptionsController() has run: no list, the modal closed.
\* `shared` tells that this.templates is the DEFAULT_TEMPLATES array itself, and
\* `templates` holds the array otherwise
NotLoaded ==
  [loaded |-> FALSE, shared |-> FALSE, templates |-> << >>, modal |-> ClosedModal,
   status |-> ""]

\* the popup after loadState: the inject button enabled with its label, the status
\* line, the handlers of the clicks on the button (none yet) and the hide-badge checkbox
PopupOpened ==
  [disabled |-> FALSE, textContent |-> "Inject", status |-> "Ready", handlers |-> << >>,
   hideBadge |-> FALSE]

\* the content script right after initializePromptLibrary(): the one-second timer
\* pending, no badge element yet, no message answered
ScriptInjected ==
  [timer |-> TRUE, badgeElement |-> FALSE, display |-> "", opacity |-> "", fade |-> FALSE,
   inbox |-> << >>, acknowledged |-> "none", document |-> << >>, ready |-> FALSE]

Init ==
  /\ storage = [present |-> FALSE, value |-> Arr(<< >>)]
  /\ DEFAULT_TEMPLATES = ShippedTemplates
  /\ generated = 0
  /\ calls = 0
  /\ writeFailures = 0
  /\ last = [op |-> "none", id |-> Undef, input |-> 0, outcome |-> "ok", returned |-> << >>,
             message |-> ""]
  /\ pending = NoCalls
  /\ controller = NotLoaded
  /\ popup = PopupOpened
  /\ content = ScriptInjected

AddTemplate ==
  \E i \in 1..Len(AddInputs), writeOk \in WriteOutcomes :
    /\ Len(getTemplates) < MaxTemplates
    /\ Falsy(AddInputs[i].id) => generated < MaxGenerated
    /\ Apply(Call("add", Undef, i), addTemplate(AddInputs[i], writeOk))

UpdateTemplate ==
  \E id \in IdInputs, i \in 1..Len(UpdateInputs), writeOk \in WriteOutcomes :
    Apply(Call("update", id, i), updateTemplate(id, UpdateInputs[i], writeOk))

DeleteTemplate ==
  \E id \in IdInputs, writeOk \in WriteOutcomes :
    Apply(Call("delete", id, 0), deleteTemplate(id, writeOk))

DuplicateTemplate ==
  \E id \in IdInputs, writeOk \in WriteOutcomes :
    /\ Len(getTemplates) < MaxTemplates
    /\ generated < MaxGenerated
    /\ Apply(Call("duplicate", id, 0), duplicateTemplate(id, writeOk))

ImportTemplates ==
  \E i \in 1..Len(ImportInputs), writeOk \in WriteOutcomes :
    /\ generated + Len(ImportInputs[i].e) <= MaxGenerated
    /\ Apply(Call("import", Undef, i), importTemplates(ImportInputs[i], writeOk))

\* importTemplates(await exportTemplates()): the exported file is imported back
ExportThenImport ==
  \E writeOk \in WriteOutcomes :
    /\ generated + Len(getTemplates) <= MaxGenerated
    /\ Apply(Call("roundtrip", Undef, 0), importTemplates(exportTemplates, writeOk))

ResetToDefaults ==
  \E writeOk \in WriteOutcomes :
    Apply(Call("reset", Undef, 0), resetToDefaults(writeOk))

\* the popup is opened
InitializeStorage ==
  \E writeOk \in WriteOutcomes :
    Apply(Call("initialize", Undef, 0), initializeStorage(writeOk))

\* the options page is loaded again: schema.js is evaluated afresh
Reload ==
  Apply(Call("reload", Undef, 0),
        Effect("ok", storage, ShippedTemplates, generated, << >>))

Next ==
  \/ AddTemplate
  \/ UpdateTemplate
  \/ DeleteTemplate
  \/ DuplicateTemplate
  \/ ImportTemplates
  \/ ExportThenImport
  \/ ResetToDefaults
  \/ InitializeStorage
  \/ Reload

Spec == Init /\ [][Next]_vars

(***************************************************************************)
(* Properties.  A call is judged by the step that makes it: the unprimed   *)
(* state is what the call found, the primed state what it left, and last'  *)
(* names the call and its outcome.                                         *)
(***************************************************************************)
\* the records of the stored collection (none while the key is not set)
Stored(store) == IF store.present THEN store.value.v ELSE << >>

Ids(templates) == {templates[i].id : i \in 1..Len(templates)}
Names(templates) == {templates[i].name : i \in 1..Len(templates)}

UniqueNames(templates) ==
  \A i, j \in 1..Len(templates) : templates[i].name = templates[j].name => i = j

UniqueIds(templates) ==
  \A i, j \in 1..Len(templates) : templates[i].id = templates[j].id => i = j

ManagerOps == {"add", "update", "delete", "duplicate", "import", "roundtrip", "reset"}
Rejected == {"id_conflict", "name_conflict", "invalid"}

\* C1: no two templates of the persisted collection have the same name
C1_UniqueNames == UniqueNames(Stored(storage))

\* C2: no two templates of the persisted collection have the same id
C2_UniqueIds == UniqueIds(Stored(storage))

C4_FailureKeepsStore ==
  [][(last'.op \in ManagerOps /\ last'.outcome # "ok") => storage' = storage]_vars

\* C4 witness: a write was rejected after the store had been written
C4_Witness == last.op \in ManagerOps /\ last.outcome = "storage_error" /\ storage.present

\* the text an import call was handed
ImportedText(call) == IF call.op = "import" THEN ImportInputs[call.input] ELSE exportTemplates

\* C5: a successful import leaves exactly the payload's records, in payload
\* order, each under a new id that is not its payload id, not another imported
\* record's id and not an id stored before
C5_ImportReplaces ==
  [][(last'.op \in {"import", "roundtrip"} /\ last'.outcome = "ok") =>
       LET payload == JSONparse(ImportedText(last')).elements
           after == Stored(storage')
       IN /\ storage'.present
          /\ Len(after) = Len(payload)
          /\ last'.returned = after
          /\ \A i \in 1..Len(after) :
               /\ after[i].name = payload[i].name
               /\ after[i].body = payload[i].body
               /\ after[i].variables = payload[i].variables
               /\ after[i].id # payload[i].id
               /\ after[i].id \notin Ids(getTemplates) \cup Ids(Stored(storage))
               /\ after[i] \notin {getTemplates[k] : k \in 1..Len(getTemplates)}
          /\ UniqueIds(after)]_vars

\* C5 witness: a payload of two records, one carrying a stored id, replaced the collection
C5_Witness ==
  /\ last.op = "import" /\ last.input = 7 /\ last.outcome = "ok"
  /\ Len(Stored(storage)) = 2

C7_ResetRestoresShipped ==
  (last.op = "reset" /\ last.outcome = "ok") =>
     /\ storage.present
     /\ Stored(storage) = ShippedTemplates
     /\ last.returned = ShippedTemplates

\* the record update is to persist: the stored record with the patch's properties over it
Overridden(template, patch) ==
  [f \in DOMAIN template |-> IF f \in DOMAIN patch THEN patch[f] ELSE template[f]]

Contains(text, part) ==
  \E i \in 1..(Len(text) - Len(part) + 1) : SubSeq(text, i, i + Len(part) - 1) = part

\* the violations validateTemplate finds in the records of an import payload
ViolationsOf(text) ==
  LET templates == JSONparse(text).elements
  IN UNION {{validateTemplate(templates[i]).errors[e] :
               e \in 1..Len(validateTemplate(templates[i]).errors)} : i \in 1..Len(templates)}

\* C11: importTemplates of a text that does not parse, of a text that is not an array, and
\* of an array with invalid records fails with a non-empty message; for invalid records it
\* is one validation error whose message holds every violation of every invalid record
C11_ImportErrors ==
  last.op = "import" =>
    LET text == ImportInputs[last.input]
    IN /\ text.j = "garbage" => last.outcome = "parse_error" /\ last.message # ""
       /\ text.j \notin {"garbage", "array"} => last.outcome = "not_array" /\ last.message # ""
       /\ text.j = "array" /\ ViolationsOf(text) # {} =>
            /\ last.outcome = "invalid"
            /\ \A violation \in ViolationsOf(text) : Contains(last.message, violation)

\* C11, for payloads without a null record: every violation of every invalid record is listed
C11_ObjectRecordsListed ==
  last.op = "import" /\ last.outcome = "invalid" =>
    \A violation \in ViolationsOf(ImportInputs[last.input]) : Contains(last.message, violation)

(***************************************************************************)
(* src/utils/template.js, the template engine: pure functions.  Under      *)
(* EngineSpec a behaviour is one call of one of them on an input drawn     *)
(* from a bounded set; `last` records the call and what it returned.       *)
(***************************************************************************)
\* longest variables array handed to validateTemplate
MaxVariables == 2

\* the sequences over S of length at most n
SeqsUpTo(S, n) == UNION {[1..k -> S] : k \in 0..n}

\* variables handed to validateTemplate: not an object, without a key, with an empty
\* key and an unknown type, well-formed, and with every fault of type and options
VariableInputs ==
  { NonObjectVariable("null"),
    Variable(Undef, Str("Topic"), Undef, Undef, NotArr("undefined")),
    Variable(Str(""), Str("Topic"), Undef, Str("radio"), NotArr("undefined")),
    Variable(Str("topic"), Str("Topic"), Undef, Undef, NotArr("undefined")),
    Variable(Str("topic"), Undef, Undef, Str("text"), NotArr("undefined")),
    Variable(Str("tone"), Undef, Undef, Str("radio"), Arr(<< Str("formal") >>)),
    Variable(Str("tone"), Undef, Undef, Str("select"), NotArr("undefined")),
    Variable(Str("tone"), Undef, Undef, Str("select"), Arr(<< Str("formal"), Num("5") >>)),
    Variable(Str("tone"), Undef, Undef, Str("select"), Arr(<< Str("formal"), Str("casual") >>)) }

\* templates handed to validateTemplate
ValidateInputs ==
  { Template(id, name, body, variables) :
      id \in {Undef, Str(""), Num("5"), Str("test")},
      name \in {Undef, Str("Test Template")},
      body \in {Undef, Str(""), Str("Test content")},
      variables \in {NotArr("undefined"), NotArr("object")}
                      \cup {Arr(v) : v \in SeqsUpTo(VariableInputs, MaxVariables)} }
  \cup {NonObjectTemplate("null"), NonObjectTemplate("undefined"), NonObjectTemplate("boolean")}

\* no engine function has been called yet; a behaviour of EngineSpec is one call
Idle == last.op = "none"

\* a call of an engine function returned `output`
Return(op, input, output) ==
  /\ last' = [op |-> op, input |-> input, output |-> output]
  /\ UNCHANGED <<storage, DEFAULT_TEMPLATES, generated, writeFailures, calls>>
  /\ UNCHANGED pages

ValidateTemplate ==
  /\ Idle
  /\ \E template \in ValidateInputs :
       Return("validateTemplate", template, validateTemplate(template))

\* most fragments a template body under test is put together from
MaxFragments == 3

RECURSIVE concat(_)
\* the fragments one after the other
concat(strings) == IF Len(strings) = 0 THEN "" ELSE strings[1] \o concat(Tail(strings))

\* pieces of template bodies: placeholders with and without whitespace round the key,
\* with the other key characters, broken placeholders, and plain text
Fragments ==
  { "{{name}}", "{{ name }}", "{{platform}}", "{{a.b-c}}", "{{na me}}",
    "{{", "}}", "Hello " }

\* bodies handed to fillTemplateVariables and extractVariableKeys
BodyInputs ==
  {Str(concat(fragments)) : fragments \in SeqsUpTo(Fragments, MaxFragments)}
  \cup {Undef, Null, Num("5")}

\* value maps handed to fillTemplateVariables
ValueMaps ==
  { [key \in {} |-> Undef],
    [key \in {"name"} |-> Str("John")],
    [key \in {"name", "platform"} |-> IF key = "name" THEN Num("5") ELSE Str("{{name}}")],
    [key \in {"a.b-c", "platform"} |-> IF key = "platform" THEN Null ELSE Str("")] }

FillTemplateVariables ==
  /\ Idle
  /\ \E body \in BodyInputs, variables \in ValueMaps :
       Return("fillTemplateVariables", [body |-> body, variables |-> variables],
              fillTemplateVariables(body, variables))

ExtractVariableKeys ==
  /\ Idle
  /\ \E body \in BodyInputs :
       Return("extractVariableKeys", [body |-> body], extractVariableKeys(body))

\* a tune table whose snippets need trimming: padded, nothing but whitespace, and a
\* 'neutral' entry that has a snippet
PaddedPresets ==
  [tune \in {"neutral", "concise", "blank"} |->
     [snippet |->
        CASE tune = "neutral" -> Str("Stay neutral.")
          [] tune = "concise" -> Str(" Be brief and direct.\n")
          [] tune = "blank" -> Str(" \n ")]]

\* templates handed to buildPromptText: none, without a body, with an empty body, and
\* with bodies that need filling and trimming
PromptTemplates ==
  { NonObjectTemplate("null"), NonObjectTemplate("undefined") }
  \cup { Template(Str("test"), Str("Test Template"), body,
                  Arr(<< Variable(Str("topic"), Str("Topic"), Undef, Undef, NotArr("undefined")) >>)) :
           body \in { Undef, Str(""), Str(" \n "), Str("Create content about {{topic}}"),
                      Str("\n{{ topic }} \n") } }

PromptValues ==
  { [key \in {} |-> Undef], [key \in {"topic"} |-> Str("AI")], [key \in {"topic"} |-> Str(" ")] }

PromptTunes ==
  { Undef, Str(""), Str("neutral"), Str("concise"), Str("blank"), Str("developer"), Str("formal") }

PromptPrefixes ==
  { Undef, Null, Str(""), Str("  "), Str("System: You are a helpful assistant."),
    Str(" \nSystem: be kind. \n\n") }

BuildPromptText ==
  /\ Idle
  /\ \E template \in PromptTemplates, variables \in PromptValues, tune \in PromptTunes,
        prefix \in PromptPrefixes, tunePresets \in {TUNE_PRESETS, PaddedPresets} :
       Return("buildPromptText",
              [template |-> template, variables |-> variables, tune |-> tune,
               prefix |-> prefix, tunePresets |-> tunePresets],
              buildPromptText(template, variables, tune, prefix, tunePresets))

EngineNext ==
  \/ ValidateTemplate
  \/ FillTemplateVariables
  \/ ExtractVariableKeys
  \/ BuildPromptText

EngineSpec == Init /\ [][EngineNext]_vars

(***************************************************************************)
(* Claims about validateTemplate.                                          *)
(***************************************************************************)
\* a field that has to be a non-empty string is not one
NotAString(x) == x.t # "string" \/ x.v = ""

\* the rules (section 4.1) the variable at JavaScript index i breaks
BrokenVariableRules(variable, i) ==
  IF variable.t # "object" THEN {<<i, "object">>}
  ELSE (IF NotAString(variable.key) THEN {<<i, "key">>} ELSE {})
       \cup (IF ~Falsy(variable.type) /\ variable.type \notin {Str("text"), Str("select")}
               THEN {<<i, "type">>} ELSE {})
       \cup (IF variable.type = Str("select")
                  /\ (variable.options.t # "array"
                      \/ \E o \in 1..Len(variable.options.v) : variable.options.v[o].t # "string")
               THEN {<<i, "options">>} ELSE {})

\* the rules a template record breaks
BrokenRules(template) ==
  (IF NotAString(template.id) THEN {<<-1, "id">>} ELSE {})
  \cup (IF NotAString(template.name) THEN {<<-1, "name">>} ELSE {})
  \cup (IF NotAString(template.body) THEN {<<-1, "body">>} ELSE {})
  \cup (IF template.variables.t # "array" THEN {<<-1, "variables">>}
        ELSE UNION {BrokenVariableRules(template.variables.v[i], i - 1) :
                      i \in 1..Len(template.variables.v)})

\* C12: validateTemplate reports every violation of the record: a dedicated error for each
\* of a missing id, name and body, an error naming the index of a variable with an empty
\* key, one error for every rule broken (top-level fields, key, type and options of each
\* variable); isValid is true exactly when there are no errors
C12_AllViolations ==
  last.op = "validateTemplate" =>
    LET template == last.input
        errors == last.output.errors
        reported == {errors[e] : e \in 1..Len(errors)}
    IN /\ last.output.isValid <=> Len(errors) = 0
       /\ template.t = "object" =>
            /\ NotAString(template.id) => \E e \in reported : Contains(e, "ID")
            /\ NotAString(template.name) => \E e \in reported : Contains(e, "name")
            /\ NotAString(template.body) => \E e \in reported : Contains(e, "body")
            /\ \A rule \in BrokenRules(template) :
                 rule[2] = "key" => \E e \in reported : Contains(e, "index " \o ToString(rule[1]))
            /\ Len(errors) = Cardinality(BrokenRules(template))

\* C12, with type and options counted only for variables that have a key: holds
C12_KeyedVariables ==
  last.op = "validateTemplate" /\ last.input.t = "object" =>
    LET broken == BrokenRules(last.input)
        keyed == {rule \in broken : rule[2] \in {"type", "options"} =>
                                      <<rule[1], "key">> \notin broken}
    IN Len(last.output.errors) = Cardinality(keyed)

(***************************************************************************)
(* Claims about placeholders.  A placeholder (section 4.1) is a substring  *)
(* "{{", optional whitespace, an identifier of word characters, dots and   *)
(* hyphens, optional whitespace, "}}".                                     *)
(***************************************************************************)
\* the positions of the identifier characters between the braces of `text`
IdentifierPositions(text) == {i \in 3..(Len(text) - 2) : charAt(text, i) \in KeyChars}

IsPlaceholder(text) ==
  /\ Len(text) >= 5
  /\ slice(text, 1, 2) = "{{"
  /\ slice(text, Len(text) - 1, Len(text)) = "}}"
  /\ IdentifierPositions(text) # {}
  /\ \A i \in 3..(Len(text) - 2) : charAt(text, i) \in KeyChars \cup WhiteSpace
  /\ \A i, j \in IdentifierPositions(text) :
       \A k \in i..j : k \in IdentifierPositions(text)

\* the identifier of a placeholder
PlaceholderKey(text) ==
  LET positions == IdentifierPositions(text)
      first == CHOOSE i \in positions : \A j \in positions : i <= j
      final == CHOOSE i \in positions : \A j \in positions : j <= i
  IN slice(text, first, final)

\* the placeholder occurrences of a body, as <<first position, last position>>
Occurrences(body) ==
  LET opens == {i \in 1..Len(body) : slice(body, i, i + 1) = "{{"}
      closes == {j \in 1..Len(body) : slice(body, j - 1, j) = "}}"}
  IN {o \in opens \X closes : IsPlaceholder(slice(body, o[1], o[2]))}

RECURSIVE Substituted(_, _, _, _)
\* body from position `from` on, with every occurrence of `occurrences` whose key is in
\* `values` replaced by the string form of its value
Substituted(body, occurrences, from, values) ==
  IF occurrences = {} THEN slice(body, from, Len(body))
  ELSE LET o == CHOOSE x \in occurrences : \A y \in occurrences : x[1] <= y[1]
           text == slice(body, o[1], o[2])
       IN slice(body, from, o[1] - 1)
            \o (IF PlaceholderKey(text) \in DOMAIN values
                  THEN ToStr(values[PlaceholderKey(text)]) ELSE text)
            \o Substituted(body, occurrences \ {o}, o[2] + 1, values)

\* C13: fillTemplateVariables replaces every placeholder whose key is in the value map by
\* the string form of the value and leaves the other placeholders and all other text as
\* they are; an empty or non-string body gives the empty string
C13_FillReplaces ==
  last.op = "fillTemplateVariables" =>
    IF last.input.body.t = "string"
      THEN last.output = Substituted(last.input.body.v, Occurrences(last.input.body.v), 1,
                                     last.input.variables)
      ELSE last.output = ""

\* a body with whitespace in a placeholder whose key has a value, and with a
\* placeholder whose key has none, was filled
C13_Witness ==
  /\ last.op = "fillTemplateVariables"
  /\ last.input.body = Str("Hello {{ name }}{{platform}}")
  /\ DOMAIN last.input.variables = {"name"}
  /\ last.output = "Hello John{{platform}}"

\* C14: extractVariableKeys returns every distinct placeholder key of the body once, in
\* the order of the keys' first occurrences, with or without whitespace round the key;
\* an empty or non-string body gives the empty sequence
C14_DistinctKeysInOrder ==
  last.op = "extractVariableKeys" =>
    LET keys == last.output
        body == IF last.input.body.t = "string" THEN last.input.body.v ELSE ""
        occurrences == Occurrences(body)
        KeyAt(o) == PlaceholderKey(slice(body, o[1], o[2]))
        First(key) == CHOOSE i \in {o[1] : o \in {x \in occurrences : KeyAt(x) = key}} :
                        \A o \in occurrences : KeyAt(o) = key => i <= o[1]
    IN /\ {keys[i] : i \in 1..Len(keys)} = {KeyAt(o) : o \in occurrences}
       /\ \A i, j \in 1..Len(keys) : i < j => /\ keys[i] # keys[j]
                                               /\ First(keys[i]) < First(keys[j])

\* a body where a key comes back, once with whitespace, after another key
C14_Witness ==
  /\ last.op = "extractVariableKeys"
  /\ last.input.body = Str("{{name}}{{platform}}{{ name }}")
  /\ last.output = << "name", "platform" >>

(***************************************************************************)
(* Claims about buildPromptText.                                           *)
(***************************************************************************)
\* the trimmed text of a string value; nothing for undefined and null
Trimmed(x) == IF x.t = "string" THEN trim(x.v) ELSE ""

\* the segments of a prompt, empty where the claim has none:
\* trimmed prefix, trimmed snippet of the tone key, trimmed filled body
Segments(call) ==
  << Trimmed(call.prefix),
     IF /\ call.tune.t = "string"
        /\ call.tune.v \notin {"", "neutral"}
        /\ call.tune.v \in DOMAIN call.tunePresets
       THEN Trimmed(call.tunePresets[call.tune.v].snippet) ELSE "",
     trim(fillTemplateVariables(call.template.body, call.variables)) >>

\* C15: buildPromptText returns the non-empty ones of trimmed prefix, trimmed tone snippet
\* and trimmed filled body, in this order, with one blank line between neighbours; the
\* result neither starts nor ends with whitespace; it is empty without a template or body
C15_PromptSegments ==
  last.op = "buildPromptText" =>
    LET call == last.input
        present == SelectSeq(Segments(call), LAMBDA segment : segment # "")
    IN /\ charAt(last.output, 1) \notin WhiteSpace
       /\ charAt(last.output, Len(last.output)) \notin WhiteSpace
       /\ IF call.template.t # "object" \/ call.template.body \in {Undef, Str("")}
            THEN last.output = ""
          ELSE IF Len(present) = 0 THEN last.output = ""
          ELSE IF Len(present) = 1 THEN last.output = present[1]
          ELSE IF Len(present) = 2 THEN last.output = present[1] \o "\n\n" \o present[2]
          ELSE last.output = present[1] \o "\n\n" \o present[2] \o "\n\n" \o present[3]

\* a padded prefix, a padded snippet and a padded body were put together
C15_Witness ==
  /\ last.op = "buildPromptText"
  /\ last.input.prefix = Str(" \nSystem: be kind. \n\n")
  /\ last.input.tune = Str("concise")
  /\ last.input.tunePresets = PaddedPresets
  /\ last.output = "System: be kind.\n\nBe brief and direct.\n\nAI"

(***************************************************************************)
(* src/constants/selectors.js and src/services/injection.js.  A document   *)
(* is the sequence of its elements in document order; an element has a tag,*)
(* attributes and possibly a form round it.  The page script's calls on    *)
(* the DOM are kept, in order, in a log.                                   *)
(***************************************************************************)
Element(tag, attrs, inForm) == [tag |-> tag, attrs |-> attrs, inForm |-> inForm]

\* one attribute test of a selector: [name="value"], [name*="value"], either with the
\* case-insensitive flag i, and :not([name])
Test(name, op, value) == [name |-> name, op |-> op, value |-> value]

\* a selector: the tag, its attribute tests, and whether it asks for a form ancestor
Selector(tag, tests, inForm) == [tag |-> tag, tests |-> tests, inForm |-> inForm]

\* String.prototype.includes, the substring test of [name*="value"]
includes(string, part) ==
  \E i \in 1..(Len(string) - Len(part) + 1) : slice(string, i, i + Len(part) - 1) = part

\* the lower-case form of an ASCII character
lowerChar(c) ==
  LET upper == "ABCDEFGHIJKLMNOPQRSTUVWXYZ"
      lower == "abcdefghijklmnopqrstuvwxyz"
      hits == {i \in 1..26 : charAt(upper, i) = c}
  IN IF hits = {} THEN c ELSE charAt(lower, CHOOSE i \in hits : TRUE)

RECURSIVE lowerCase(_)
\* ASCII case folding, as the i flag of an attribute selector compares
lowerCase(string) ==
  IF string = "" THEN "" ELSE lowerChar(charAt(string, 1)) \o lowerCase(slice(string, 2, Len(string)))

\* whether an element passes one attribute test
holds(element, test) ==
  IF test.op = "absent" THEN test.name \notin DOMAIN element.attrs
  ELSE /\ test.name \in DOMAIN element.attrs
       /\ LET value == element.attrs[test.name]
          IN CASE test.op = "=" -> value = test.value
               [] test.op = "*=" -> includes(value, test.value)
               [] test.op = "=i" -> lowerCase(value) = lowerCase(test.value)
               [] test.op = "*=i" -> includes(lowerCase(value), lowerCase(test.value))

\* element.matches(selector)
matches(element, selector) ==
  /\ element.tag = selector.tag
  /\ selector.inForm => element.inForm
  /\ \A test \in selector.tests : holds(element, test)

\* root.querySelector(selector): the position of the first element in document order
\* that matches, 0 for null
querySelector(document, selector) ==
  LET hits == {i \in 1..Len(document) : matches(document[i], selector)}
  IN IF hits = {} THEN 0 ELSE CHOOSE i \in hits : \A j \in hits : i <= j

\* as findFirstElement, falling back on the first element of the document
findFirstElement_FallsBack(selectors, document) ==
  LET found == {i \in 1..Len(selectors) : querySelector(document, selectors[i]) # 0}
  IN IF found # {}
       THEN querySelector(document, selectors[CHOOSE i \in found : \A j \in found : i <= j])
     ELSE IF Len(document) > 0 THEN 1 ELSE 0

RECURSIVE findFirstElement(_, _)
\* findFirstElement(selectors, root), and the chain querySelector(a) || querySelector(b) ...
findFirstElement(selectors, document) ==
  IF Len(selectors) = 0 THEN 0
  ELSE IF querySelector(document, selectors[1]) # 0 THEN querySelector(document, selectors[1])
  ELSE findFirstElement(Tail(selectors), document)

SAFE_SELECTORS ==
  [textarea |->
     << Selector("div", {Test("contenteditable", "=", "true"), Test("id", "=", "prompt-textarea")}, FALSE),
        Selector("div", {Test("contenteditable", "=", "true"), Test("translate", "=", "no")}, FALSE),
        Selector("textarea", {Test("data-id", "=", "root")}, FALSE),
        Selector("textarea", {Test("placeholder", "*=", "Message")}, FALSE),
        Selector("textarea", {Test("placeholder", "*=", "Send a message")}, FALSE),
        Selector("textarea", {Test("aria-label", "*=i", "message")}, FALSE),
        Selector("textarea", {Test("aria-label", "*=i", "Chat input")}, FALSE),
        Selector("textarea", {Test("readonly", "absent", "")}, TRUE),
        Selector("textarea", {Test("readonly", "absent", "")}, FALSE) >>,
   sendButton |->
     << Selector("button", {Test("data-testid", "=", "send-button")}, FALSE),
        Selector("button", {Test("aria-label", "=", "Send message")}, FALSE),
        Selector("button", {Test("aria-label", "=i", "Send")}, FALSE),
        Selector("button", {Test("type", "=", "submit")}, FALSE),
        Selector("button", {Test("type", "=", "submit")}, TRUE) >>]

\* the selectors written out in the function injectToActiveTab hands to the page:
\* the first five input selectors and the first four send-button selectors
InlineSelectors ==
  [textarea |-> SubSeq(SAFE_SELECTORS.textarea, 1, 5),
   sendButton |-> SubSeq(SAFE_SELECTORS.sendButton, 1, 4)]

\* one call of the page script on the DOM: focus(), an assignment to innerHTML or value,
\* appendChild of the paragraph, dispatchEvent(type, data) or click(), on element `target`
Dom(op, target, type, data) == [op |-> op, target |-> target, type |-> type, data |-> data]

\* as writeCalls, with the composition events in the branch of the plain field as well
writeCalls_CompositionAlways(inputElement, isContentEditable, text) ==
  << Dom("focus", inputElement, "", "") >>
  \o (IF isContentEditable
        THEN << Dom("innerHTML", inputElement, "", ""),
                Dom("appendChild", inputElement, "p", text) >>
        ELSE << Dom("value", inputElement, "", text) >>)
  \o << Dom("dispatchEvent", inputElement, "input", ""),
        Dom("dispatchEvent", inputElement, "change", ""),
        Dom("dispatchEvent", inputElement, "compositionstart", text),
        Dom("dispatchEvent", inputElement, "compositionend", text),
        Dom("dispatchEvent", inputElement, "focus", ""),
        Dom("dispatchEvent", inputElement, "blur", ""),
        Dom("focus", inputElement, "", ""),
        Dom("dispatchEvent", inputElement, "keydown", "Enter"),
        Dom("dispatchEvent", inputElement, "keyup", "Enter"),
        Dom("dispatchEvent", inputElement, "paste", "") >>

\* the calls on the located element from focus() to the paste event
writeCalls(inputElement, isContentEditable, text) ==
  << Dom("focus", inputElement, "", "") >>
  \o (IF isContentEditable
        THEN << Dom("innerHTML", inputElement, "", ""),
                Dom("appendChild", inputElement, "p", text),
                Dom("dispatchEvent", inputElement, "input", ""),
                Dom("dispatchEvent", inputElement, "change", ""),
                Dom("dispatchEvent", inputElement, "compositionstart", text),
                Dom("dispatchEvent", inputElement, "compositionend", text),
                Dom("dispatchEvent", inputElement, "focus", ""),
                Dom("dispatchEvent", inputElement, "blur", ""),
                Dom("focus", inputElement, "", "") >>
        ELSE << Dom("value", inputElement, "", text),
                Dom("dispatchEvent", inputElement, "input", ""),
                Dom("dispatchEvent", inputElement, "change", ""),
                Dom("dispatchEvent", inputElement, "focus", ""),
                Dom("dispatchEvent", inputElement, "blur", ""),
                Dom("focus", inputElement, "", "") >>)
  \o << Dom("dispatchEvent", inputElement, "keydown", "Enter"),
        Dom("dispatchEvent", inputElement, "keyup", "Enter"),
        Dom("dispatchEvent", inputElement, "paste", "") >>

\* whether a call throws on a page with the given fault: focus() throws, the page
\* refuses the assignment, CompositionEvent cannot be constructed, click() throws
throws(call, fault) ==
  \/ fault = "focus" /\ call.op = "focus"
  \/ fault = "write" /\ call.op \in {"innerHTML", "value"}
  \/ fault = "composition" /\ call.type = "compositionstart"
  \/ fault = "click" /\ call.op = "click"

\* error.message of what the faulty call throws
faultMessage(fault) == "Failed to execute '" \o fault \o "'"

\* the object the page script returns
ScriptResult(success, error, warning) == [success |-> success, error |-> error, warning |-> warning]

\* the position of the first call that throws on a page with the given fault, 0 when
\* none does
firstThrown(domCalls, fault) ==
  LET thrown == {i \in 1..Len(domCalls) : throws(domCalls[i], fault)}
  IN IF thrown = {} THEN 0 ELSE CHOOSE i \in thrown : \A j \in thrown : i <= j

\* the try block of the page script once the input is found: the calls up to the one
\* that throws and the error of the catch block, or all of them and success, with the
\* warning when auto-send found no send button
tryBlock(domCalls, failing, warning, fault) ==
  IF failing # 0
    THEN [result |-> ScriptResult(FALSE, Str(faultMessage(fault)), Undef),
          log |-> SubSeq(domCalls, 1, failing - 1)]
    ELSE [result |-> ScriptResult(TRUE, Undef, warning), log |-> domCalls]

\* the page script from the two lookups on: without an input element it returns the
\* failure and touches nothing; the send button is clicked after the write when
\* auto-send is asked for and the button exists
located(inputElement, sendButton, document, text, autoSend, fault) ==
  IF inputElement = 0
    THEN [result |-> ScriptResult(FALSE, Str("ChatGPT input not found"), Undef), log |-> << >>]
    ELSE LET domCalls ==
               writeCalls(inputElement,
                          "contenteditable" \in DOMAIN document[inputElement].attrs, text)
               \o (IF autoSend /\ sendButton # 0
                     THEN << Dom("click", sendButton, "", "") >> ELSE << >>)
         IN tryBlock(domCalls, firstThrown(domCalls, fault),
                     IF autoSend /\ sendButton = 0
                       THEN Str("Text injected but send button not found") ELSE Undef,
                     fault)

\* the function run in the page, injectTextToChatGPT with the selectors of SAFE_SELECTORS
\* and the function injectToActiveTab passes to executeScript with its own: what it
\* returns and the calls it made on the DOM
pageScript(selectors, document, text, autoSend, fault) ==
  located(findFirstElement(selectors.textarea, document),
          findFirstElement(selectors.sendButton, document),
          document, text, autoSend, fault)

injectTextToChatGPT(document, text, autoSend, fault) ==
  pageScript(SAFE_SELECTORS, document, text, autoSend, fault)

\* the tab chrome.tabs.query finds: none, or one showing a page of `host` under `url`
NoTab == [present |-> FALSE, host |-> "", url |-> Undef]
Tab(host, url) == [present |-> TRUE, host |-> host, url |-> url]

\* injectToActiveTab threw an Error before or instead of returning
Raised(message, executed, log) ==
  [thrown |-> TRUE, message |-> message, result |-> ScriptResult(FALSE, Undef, Undef),
   executed |-> executed, log |-> log]

\* tab.url && (tab.url.includes('chat.openai.com') || tab.url.includes('chatgpt.com'))
supportedDomain(tab) ==
  /\ ~Falsy(tab.url)
  /\ includes(tab.url.v, "chat.openai.com") \/ includes(tab.url.v, "chatgpt.com")

\* as handleResult, handing a failed result of the page script back to the caller
handleResult_ReturnsFailure(script) ==
  [thrown |-> FALSE, message |-> "", result |-> script.result,
   executed |-> TRUE, log |-> script.log]

\* injectToActiveTab after executeScript resolved: a result without success is thrown
\* as an Error with the result's message, a successful one is returned
handleResult(script) ==
  IF ~script.result.success
    THEN Raised(IF Falsy(script.result.error) THEN "Injection failed" ELSE script.result.error.v,
                TRUE, script.log)
    ELSE [thrown |-> FALSE, message |-> "", result |-> script.result,
          executed |-> TRUE, log |-> script.log]

\* injectToActiveTab(text, autoSend): what it returns or throws, whether the script ran
\* in the page, and the script's calls on the DOM.  `scripting` is what the browser does
\* with executeScript: "ok" runs the function, "rejected" rejects the call
injectToActiveTab(tab, document, text, autoSend, fault, scripting) ==
  IF ~tab.present THEN Raised("No active tab found", FALSE, << >>)
  ELSE IF ~supportedDomain(tab) THEN Raised("Not on a supported ChatGPT domain", FALSE, << >>)
  ELSE IF scripting = "rejected" THEN Raised("Cannot access contents of the page", FALSE, << >>)
  ELSE handleResult(pageScript(InlineSelectors, document, text, autoSend, fault))

\* PopupController.injectPrompt: the status lines it shows for an injection
statusesShown(injection) ==
  << "Injecting..." >>
  \o (IF injection.thrown THEN << "Failed: " \o injection.message >>
      ELSE << "Successfully injected!" >>)

\* PopupController.injectPrompt from the call of injectToActiveTab on
afterInjection(injection) ==
  [injected |-> TRUE, statuses |-> statusesShown(injection), injection |-> injection]

\* PopupController.injectPrompt with a template selected: an empty prompt is not injected
injectPrompt(tab, document, text, autoSend, fault, scripting) ==
  IF text = ""
    THEN [injected |-> FALSE, statuses |-> << "No prompt text to inject" >>,
          injection |-> Raised("", FALSE, << >>)]
    ELSE afterInjection(injectToActiveTab(tab, document, text, autoSend, fault, scripting))

(***************************************************************************)
(* Injections.  Under InjectSpec a behaviour is one injection: the popup's *)
(* Inject button with a tab, a page and the browser's answer drawn from    *)
(* bounded sets, or a run of injectTextToChatGPT on a page.                *)
(***************************************************************************)
\* most elements of a page under test
MaxElements == 2

\* elements of pages: the inputs the selectors look for, inputs they miss, send buttons
\* and another button
ElementKinds ==
  { Element("div", ("contenteditable" :> "true") @@ ("id" :> "prompt-textarea"), FALSE),
    Element("div", ("contenteditable" :> "true") @@ ("translate" :> "no"), TRUE),
    Element("textarea", ("data-id" :> "root"), TRUE),
    Element("textarea", ("placeholder" :> "Message ChatGPT"), FALSE),
    Element("textarea", ("aria-label" :> "Chat Input"), FALSE),
    Element("textarea", ("readonly" :> ""), TRUE),
    Element("button", ("data-testid" :> "send-button"), FALSE),
    Element("button", ("aria-label" :> "SEND"), TRUE),
    Element("button", ("aria-label" :> "Attach files"), FALSE) }

Documents == SeqsUpTo(ElementKinds, MaxElements)

\* the active tab: none, one whose url the extension may not read, the two ChatGPT
\* domains, and other sites, one of them with a ChatGPT domain in its query string
Tabs ==
  { NoTab,
    Tab("chatgpt.com", Undef),
    Tab("chatgpt.com", Str("https://chatgpt.com/")),
    Tab("chat.openai.com", Str("https://chat.openai.com/c/42")),
    Tab("example.com", Str("https://example.com/")),
    Tab("example.com", Str("https://example.com/?ref=chatgpt.com")) }

Faults == {"none", "focus", "write", "composition", "click"}

\* the prompt buildPromptText made
PromptText == "Create content about AI"

InjectionInput(tab, document, text, autoSend, fault, scripting) ==
  [tab |-> tab, document |-> document, text |-> text, autoSend |-> autoSend,
   fault |-> fault, scripting |-> scripting]

\* the Inject button with a prompt to inject
InjectPrompt ==
  /\ Idle
  /\ \E tab \in Tabs, document \in Documents, autoSend \in BOOLEAN, fault \in Faults,
        scripting \in {"ok", "rejected"} :
       Return("injectPrompt",
              InjectionInput(tab, document, PromptText, autoSend, fault, scripting),
              injectPrompt(tab, document, PromptText, autoSend, fault, scripting))

\* the Inject button with an empty prompt
InjectEmptyPrompt ==
  /\ Idle
  /\ \E tab \in Tabs :
       Return("injectPrompt", InjectionInput(tab, << >>, "", FALSE, "none", "ok"),
              injectPrompt(tab, << >>, "", FALSE, "none", "ok"))

InjectTextToChatGPT ==
  /\ Idle
  /\ \E document \in Documents, autoSend \in BOOLEAN, fault \in Faults :
       Return("injectTextToChatGPT",
              InjectionInput(NoTab, document, PromptText, autoSend, fault, "ok"),
              injectTextToChatGPT(document, PromptText, autoSend, fault))

\* the content script's checkReadyState(): whether it marks the page 'prompt-lib-ready',
\* and the input element it found (0 for none)
checkReadyState(document) ==
  LET inputElement == findFirstElement(SAFE_SELECTORS.textarea, document)
  IN [isReady |-> inputElement # 0, inputElement |-> inputElement]

\* the content script checks a ChatGPT page, and the popup injects into the same page
CheckReadyState ==
  /\ Idle
  /\ \E document \in Documents :
       LET tab == Tab("chatgpt.com", Str("https://chatgpt.com/"))
       IN Return("checkReadyState",
                 InjectionInput(tab, document, PromptText, FALSE, "none", "ok"),
                 [ready |-> checkReadyState(document),
                  injection |-> injectToActiveTab(tab, document, PromptText, FALSE, "none", "ok")])

InjectNext ==
  \/ InjectPrompt
  \/ InjectEmptyPrompt
  \/ InjectTextToChatGPT
  \/ CheckReadyState

InjectSpec == Init /\ [][InjectNext]_vars

(***************************************************************************)
(* Claims about injections.                                                *)
(***************************************************************************)
\* the popup asked for an injection and the page script ran in the tab
ScriptRan == last.op = "injectPrompt" /\ last.output.injected /\ last.output.injection.executed

\* no selector of the list matches an element of the document
NoMatch(selectors, document) ==
  \A i \in 1..Len(selectors), e \in 1..Len(document) : ~matches(document[e], selectors[i])

\* the first element of the document that some selector of the list matches, taking the
\* selectors in order
Located(selectors, document) ==
  LET s == CHOOSE i \in 1..Len(selectors) :
             /\ \E e \in 1..Len(document) : matches(document[e], selectors[i])
             /\ \A j \in 1..(i - 1) : \A e \in 1..Len(document) : ~matches(document[e], selectors[j])
  IN CHOOSE e \in 1..Len(document) :
       /\ matches(document[e], selectors[s])
       /\ \A d \in 1..(e - 1) : ~matches(document[d], selectors[s])

\* C16: when no element-lookup strategy matches on the page, the injection fails with
\* "input not found" and the page script has made no call on the DOM: no focus, no
\* change of value or content, no event, no click
C16_NotFoundNoMutation ==
  /\ ScriptRan /\ NoMatch(InlineSelectors.textarea, last.input.document) =>
       /\ last.output.injection.thrown
       /\ last.output.injection.message = "ChatGPT input not found"
       /\ last.output.injection.log = << >>
  /\ last.op = "injectTextToChatGPT" /\ NoMatch(SAFE_SELECTORS.textarea, last.input.document) =>
       /\ ~last.output.result.success
       /\ last.output.result.error = Str("ChatGPT input not found")
       /\ last.output.log = << >>

\* auto-send was asked for on a page with a send button and inputs no selector finds
C16_Witness ==
  /\ ScriptRan
  /\ last.input.autoSend
  /\ Len(last.input.document) = 2
  /\ last.input.document[1].tag = "textarea"
  /\ last.input.document[2].attrs = ("data-testid" :> "send-button")
  /\ NoMatch(InlineSelectors.textarea, last.input.document)
  /\ last.output.injection.log = << >>

\* the page script of the call found no input or met a DOM call that throws
ScriptFails(selectors) ==
  \/ NoMatch(selectors.textarea, last.input.document)
  \/ last.input.fault \in {"focus", "write"}
  \/ /\ last.input.fault = "composition"
     /\ "contenteditable" \in
          DOMAIN last.input.document[Located(selectors.textarea, last.input.document)].attrs
  \/ /\ last.input.fault = "click"
     /\ last.input.autoSend
     /\ ~NoMatch(selectors.sendButton, last.input.document)

\* C17 as stated: a lookup failure or an exception while writing comes back to the caller
\* of injectToActiveTab as a returned result with success false; nothing is thrown
C17_NeverRaised ==
  ScriptRan /\ ScriptFails(InlineSelectors) =>
    /\ ~last.output.injection.thrown
    /\ ~last.output.injection.result.success

\* C17, amended: the page script returns a lookup failure or an exception while writing
\* as a result with success false and a message; injectToActiveTab raises an Error with
\* this message, and the popup shows it as its "Failed: ..." status
C17_RaisedWithMessage ==
  /\ last.op = "injectTextToChatGPT" /\ ScriptFails(SAFE_SELECTORS) =>
       /\ ~last.output.result.success
       /\ last.output.result.error.t = "string" /\ last.output.result.error.v # ""
  /\ ScriptRan /\ ScriptFails(InlineSelectors) =>
       /\ last.output.injection.thrown
       /\ last.output.injection.message =
            (IF NoMatch(InlineSelectors.textarea, last.input.document)
               THEN "ChatGPT input not found" ELSE faultMessage(last.input.fault))
       /\ last.output.statuses =
            << "Injecting...", "Failed: " \o last.output.injection.message >>

\* the page refused the write into a located rich region
C17_Witness ==
  /\ ScriptRan
  /\ last.input.fault = "write"
  /\ ~NoMatch(InlineSelectors.textarea, last.input.document)
  /\ last.output.injection.thrown
  /\ last.output.injection.log = << Dom("focus", 1, "", "") >>

\* the page script of the call ran
PageScriptRan == ScriptRan \/ last.op = "injectTextToChatGPT"

\* the selectors, the DOM calls and the success of the page script of the call
SelectorsOf == IF last.op = "injectPrompt" THEN InlineSelectors ELSE SAFE_SELECTORS
LogOf == IF last.op = "injectPrompt" THEN last.output.injection.log ELSE last.output.log
Succeeded ==
  IF last.op = "injectPrompt" THEN ~last.output.injection.thrown ELSE last.output.result.success

\* the calls that follow the write of the text, the click on the send button left out
Notifications(log) ==
  LET written == CHOOSE i \in 1..Len(log) : log[i].op \in {"appendChild", "value"}
  IN SelectSeq(SubSeq(log, written + 1, Len(log)), LAMBDA call : call.op # "click")

\* input, change, for a rich region the composition pair with the text, focus, blur, and
\* the refocus of the element
NotifySequence(element, rich, text) ==
  << Dom("dispatchEvent", element, "input", ""), Dom("dispatchEvent", element, "change", "") >>
  \o (IF rich THEN << Dom("dispatchEvent", element, "compositionstart", text),
                      Dom("dispatchEvent", element, "compositionend", text) >>
      ELSE << >>)
  \o << Dom("dispatchEvent", element, "focus", ""), Dom("dispatchEvent", element, "blur", ""),
        Dom("focus", element, "", "") >>

\* the keydown and keyup of Enter and the paste event the script dispatches after them
RerenderSequence(element) ==
  << Dom("dispatchEvent", element, "keydown", "Enter"),
     Dom("dispatchEvent", element, "keyup", "Enter"),
     Dom("dispatchEvent", element, "paste", "") >>

IsPrefix(short, long) == Len(short) <= Len(long) /\ short = SubSeq(long, 1, Len(short))

\* a click, if there is one, is the last call of the log
ClickLast(log) == \A i \in 1..Len(log) : log[i].op = "click" => i = Len(log)

\* C18 as stated: after the write the calls on the element are exactly input, change, for
\* a rich region compositionstart and compositionend with the text, focus, blur and the
\* refocus; the send button is clicked only after them
C18_EventsExactly ==
  PageScriptRan /\ Succeeded =>
    LET element == Located(SelectorsOf.textarea, last.input.document)
        rich == "contenteditable" \in DOMAIN last.input.document[element].attrs
    IN /\ Notifications(LogOf) = NotifySequence(element, rich, last.input.text)
       /\ ClickLast(LogOf)

\* C18, amended: after the write the calls on the element are input, change, for a rich
\* region only the composition pair with the text, focus, blur, the refocus, and then
\* keydown and keyup of Enter and paste; the send button is clicked only after all of
\* them; when a call throws, the calls made are the ones before it
C18_EventsThenRerender ==
  PageScriptRan /\ (\E i \in 1..Len(LogOf) : LogOf[i].op \in {"appendChild", "value"}) =>
    LET element == Located(SelectorsOf.textarea, last.input.document)
        rich == "contenteditable" \in DOMAIN last.input.document[element].attrs
        all == NotifySequence(element, rich, last.input.text) \o RerenderSequence(element)
    IN /\ IsPrefix(Notifications(LogOf), all)
       /\ Succeeded => Notifications(LogOf) = all
       /\ ClickLast(LogOf)
       /\ (\E i \in 1..Len(LogOf) : LogOf[i].op = "click") => Notifications(LogOf) = all
       /\ ~rich => \A i \in 1..Len(LogOf) :
                     LogOf[i].type \notin {"compositionstart", "compositionend"}

\* a rich region was written and the send button clicked
C18_Witness ==
  /\ ScriptRan
  /\ Succeeded
  /\ last.input.document[1].tag = "div"
  /\ Len(LogOf) = 14
  /\ LogOf[6].type = "compositionstart" /\ LogOf[6].data = PromptText
  /\ LogOf[14].op = "click"

\* the number of clicks in a log
Clicks(log) == Cardinality({i \in 1..Len(log) : log[i].op = "click"})

\* C19: with auto-send asked for and the text written, a send button that the lookup
\* finds is clicked once and the injection succeeds; without one the injection still
\* succeeds with a warning, and the warning is among the status lines shown to the user;
\* without auto-send nothing is clicked
C19_AutoSend ==
  ScriptRan /\ ~NoMatch(InlineSelectors.textarea, last.input.document) =>
    /\ ~last.input.autoSend => Clicks(LogOf) = 0
    /\ last.input.autoSend /\ last.input.fault = "none" =>
         IF ~NoMatch(InlineSelectors.sendButton, last.input.document)
           THEN /\ Clicks(LogOf) = 1
                /\ LogOf[Len(LogOf)].target =
                     Located(InlineSelectors.sendButton, last.input.document)
                /\ Succeeded
                /\ last.output.injection.result.success
           ELSE /\ Clicks(LogOf) = 0
                /\ Succeeded
                /\ last.output.injection.result.success
                /\ ~Falsy(last.output.injection.result.warning)
                /\ \E i \in 1..Len(last.output.statuses) :
                     Contains(last.output.statuses[i], last.output.injection.result.warning.v)

\* C19 without the last part: the warning is in the result injectToActiveTab returns
C19_WarningReturned ==
  ScriptRan /\ ~NoMatch(InlineSelectors.textarea, last.input.document) =>
    /\ ~last.input.autoSend => Clicks(LogOf) = 0
    /\ last.input.autoSend /\ last.input.fault = "none" =>
         /\ Succeeded
         /\ Clicks(LogOf) = (IF NoMatch(InlineSelectors.sendButton, last.input.document) THEN 0 ELSE 1)
         /\ NoMatch(InlineSelectors.sendButton, last.input.document) =>
              ~Falsy(last.output.injection.result.warning)

\* C20: the page script is run only in an active tab whose page is on chat.openai.com or
\* chatgpt.com; without an active tab or on another domain injectToActiveTab fails with
\* an error and no script is run
C20_AllowedDomainOnly ==
  last.op = "injectPrompt" /\ last.output.injected =>
    LET allowed == last.input.tab.present /\ last.input.tab.host \in {"chat.openai.com", "chatgpt.com"}
    IN /\ last.output.injection.executed => allowed
       /\ ~allowed => /\ last.output.injection.thrown
                       /\ ~last.output.injection.executed
                       /\ last.output.injection.log = << >>

C26_DefaultsUntouched == DEFAULT_TEMPLATES = ShippedTemplates

(***************************************************************************)
(* Claim about the readiness check and the locate step (InjectSpec).       *)
(***************************************************************************)
\* C30: on every page, when the content script's readiness check finds an input element
\* the locate step of injectToActiveTab finds that same element (the injection writes
\* into it), and when the readiness check finds none the locate step finds none (the
\* injection fails with "ChatGPT input not found")
C30_ReadinessAgreesWithLocate ==
  last.op = "checkReadyState" =>
    LET ready == last.output.ready
        injection == last.output.injection
    IN /\ ready.isReady =>
            /\ ~injection.thrown
            /\ injection.log[1] = Dom("focus", ready.inputElement, "", "")
       /\ ~ready.isReady =>
            /\ injection.thrown
            /\ injection.message = "ChatGPT input not found"

\* C30 when the readiness check stops at one of the first five selectors of its list:
\* the locate step finds the same element; and the locate step never finds an element
\* on a page that is not marked ready
C30_AgreesOnFirstFive ==
  last.op = "checkReadyState" =>
    LET ready == last.output.ready
        injection == last.output.injection
    IN /\ ~NoMatch(InlineSelectors.textarea, last.input.document) =>
            /\ ready.isReady
            /\ ~injection.thrown
            /\ injection.log[1] = Dom("focus", ready.inputElement, "", "")
       /\ ~ready.isReady => injection.thrown /\ injection.message = "ChatGPT input not found"

(***************************************************************************)
(* The badge.  Under BadgeSpec the content script runs in a ChatGPT page   *)
(* while the user ticks and unticks "hide badge" in the popup: the popup   *)
(* sends {action: 'toggleBadge', hide} to the tab, the content script      *)
(* answers each message it receives, and its timers fire when they are due. *)
(***************************************************************************)
\* most toggleBadge messages on their way to the content script
MaxMessages == 2

\* handleBadgeVisibility(hide): the display of the badge element, when there is one
handleBadgeVisibility(hide) ==
  IF content.badgeElement
    THEN [content EXCEPT !.display = IF hide THEN "none" ELSE "block"]
    ELSE content

\* ensureBadge(): creates the element with its style sheet (no display property, opacity
\* 0.8), appends it to the body and starts the five-second timer that dims it
ensureBadge(script) ==
  IF script.badgeElement THEN script
  ELSE [script EXCEPT !.badgeElement = TRUE, !.display = "", !.opacity = "0.8", !.fade = TRUE]

\* PopupController.onHideBadgeChange and applyBadgeVisibility: the checkbox changes and
\* its new value is sent to the active ChatGPT tab
OnHideBadgeChange ==
  /\ Len(content.inbox) < MaxMessages
  /\ popup' = [popup EXCEPT !.hideBadge = ~popup.hideBadge]
  /\ content' = [content EXCEPT !.inbox = Append(@, ~popup.hideBadge)]
  /\ UNCHANGED <<storage, DEFAULT_TEMPLATES, generated, writeFailures, calls, last,
                 pending, controller>>

\* chrome.runtime.onMessage: the listener handles a toggleBadge message and answers
\* {success: true}
OnMessage ==
  /\ Len(content.inbox) > 0
  /\ LET hide == Head(content.inbox)
     IN content' = [handleBadgeVisibility(hide) EXCEPT
                      !.inbox = Tail(@),
                      !.acknowledged = IF hide THEN "hide" ELSE "show"]
  /\ UNCHANGED <<storage, DEFAULT_TEMPLATES, generated, writeFailures, calls, last,
                 pending, controller, popup>>

\* PopupController.loadState, applyState and applyBadgeVisibility: the popup is opened
\* again and sends the value of its checkbox to the active ChatGPT tab
ApplyBadgeVisibility ==
  /\ Len(content.inbox) < MaxMessages
  /\ content' = [content EXCEPT !.inbox = Append(@, popup.hideBadge)]
  /\ UNCHANGED <<storage, DEFAULT_TEMPLATES, generated, writeFailures, calls, last,
                 pending, controller, popup>>

\* the pages the content script sees: ChatGPT before and after it has rendered its input
BadgePages ==
  { << >>,
    << Element("div", ("contenteditable" :> "true") @@ ("id" :> "prompt-textarea"), FALSE) >> }

\* ChatGPT renders or removes its input
PageRenders ==
  /\ \E document \in BadgePages \ {content.document} :
       content' = [content EXCEPT !.document = document]
  /\ UNCHANGED <<storage, DEFAULT_TEMPLATES, generated, writeFailures, calls, last,
                 pending, controller, popup>>

\* setInterval(checkReadyState, 5000), and the observer's check, once the first timer
\* has fired
ReadyCheck ==
  /\ ~content.timer
  /\ content' = [content EXCEPT !.ready = checkReadyState(content.document).isReady]
  /\ UNCHANGED <<storage, DEFAULT_TEMPLATES, generated, writeFailures, calls, last,
                 pending, controller, popup>>

\* setTimeout(() => { ensureBadge(); checkReadyState(); }, 1000) fires
BadgeTimer ==
  /\ content.timer
  /\ content' = [ensureBadge(content) EXCEPT
                   !.timer = FALSE,
                   !.ready = checkReadyState(content.document).isReady]
  /\ UNCHANGED <<storage, DEFAULT_TEMPLATES, generated, writeFailures, calls, last,
                 pending, controller, popup>>

\* the timer ensureBadge started fires after five seconds: the badge is dimmed
FadeTimer ==
  /\ content.fade
  /\ content' = [content EXCEPT !.fade = FALSE,
                                !.opacity = IF content.badgeElement THEN "0.3" ELSE @]
  /\ UNCHANGED <<storage, DEFAULT_TEMPLATES, generated, writeFailures, calls, last,
                 pending, controller, popup>>

BadgeNext ==
  \/ OnHideBadgeChange
  \/ ApplyBadgeVisibility
  \/ OnMessage
  \/ PageRenders
  \/ ReadyCheck
  \/ BadgeTimer
  \/ FadeTimer

BadgeSpec == Init /\ [][BadgeNext]_vars

\* the badge element is in the page and shown
Displayed == content.badgeElement /\ content.display # "none"

\* C29: from the moment the content script has answered {success: true} to a toggleBadge
\* message with hide = true until a message with hide = false arrives, the badge is not
\* displayed on the page, whether the message came before or after the badge was created
C29_HiddenOnceAcknowledged == content.acknowledged = "hide" => ~Displayed

\* C29 for messages that come after the badge was created: a message with hide = true
\* that finds the badge hides it, and nothing but a message changes its display
C29_HiddenWhenCreatedBefore ==
  [][content.badgeElement =>
       /\ (Len(content'.inbox) < Len(content.inbox) /\ content'.acknowledged = "hide")
            => ~Displayed'
       /\ Len(content'.inbox) >= Len(content.inbox) => content'.display = content.display]_vars

(***************************************************************************)
(* The inject button.  Under PopupSpec the user clicks the popup's inject  *)
(* button with a template selected and a prompt to inject.  A click on an  *)
(* enabled button starts a run of PopupController.injectPrompt; a run      *)
(* stops at each await (saveFormState, injectToActiveTab) and at its       *)
(* setTimeout, and other runs and clicks come in between.  A disabled      *)
(* button takes no click.                                                  *)
(***************************************************************************)
\* most clicks on the inject button
MaxClicks == 3

\* a run of injectPrompt: where it stands and the originalText it has read
Handler(pc, originalText) == [pc |-> pc, originalText |-> originalText]

\* a click on the inject button: injectPrompt runs up to `await this.saveFormState()`
ClickInject ==
  /\ ~popup.disabled
  /\ Len(popup.handlers) < MaxClicks
  /\ popup' = [popup EXCEPT !.handlers = Append(@, Handler("saveFormState", ""))]
  /\ UNCHANGED <<storage, DEFAULT_TEMPLATES, generated, writeFailures, calls, last,
                 pending, controller, content>>

\* saveFormState has settled (a failure is logged): the run reads the button's label,
\* shows the loading state, disables the button and calls injectToActiveTab
StartInjection ==
  /\ \E i \in 1..Len(popup.handlers) :
       /\ popup.handlers[i].pc = "saveFormState"
       /\ popup' = [popup EXCEPT !.handlers[i] = Handler("injectToActiveTab", popup.textContent),
                                 !.textContent = "Injecting...",
                                 !.disabled = TRUE,
                                 !.status = "Injecting..."]
  /\ UNCHANGED <<storage, DEFAULT_TEMPLATES, generated, writeFailures, calls, last,
                 pending, controller, content>>

\* injectToActiveTab has returned or thrown: the feedback is shown and the timer that
\* resets the button is started
InjectionSettles ==
  /\ \E i \in 1..Len(popup.handlers), thrown \in BOOLEAN :
       /\ popup.handlers[i].pc = "injectToActiveTab"
       /\ popup' = [popup EXCEPT !.handlers[i].pc = "setTimeout",
                                 !.textContent = IF thrown THEN "Failed" ELSE "Injected!",
                                 !.status = IF thrown THEN "Failed: Injection failed"
                                            ELSE "Successfully injected!"]
  /\ UNCHANGED <<storage, DEFAULT_TEMPLATES, generated, writeFailures, calls, last,
                 pending, controller, content>>

\* the timer of a run fires: the label the run had read is put back and the button enabled
ResetButton ==
  /\ \E i \in 1..Len(popup.handlers) :
       /\ popup.handlers[i].pc = "setTimeout"
       /\ popup' = [popup EXCEPT !.handlers[i].pc = "done",
                                 !.textContent = popup.handlers[i].originalText,
                                 !.disabled = FALSE,
                                 !.status = "Ready"]
  /\ UNCHANGED <<storage, DEFAULT_TEMPLATES, generated, writeFailures, calls, last,
                 pending, controller, content>>

PopupNext ==
  \/ ClickInject
  \/ StartInjection
  \/ InjectionSettles
  \/ ResetButton

PopupSpec == Init /\ [][PopupNext]_vars

\* the injectToActiveTab calls in flight
InFlight == {i \in 1..Len(popup.handlers) : popup.handlers[i].pc = "injectToActiveTab"}

\* C28: at most one injectToActiveTab call started from the popup is in flight at any
\* time: between a click on the inject button and the end of the injection it starts, no
\* further click starts another call
C28_OneInjectionInFlight == Cardinality(InFlight) <= 1

\* C28 from the moment the button is disabled: while it is disabled no click is taken,
\* and every timer that fires enables it
C28_DisabledTakesNoClick ==
  [][/\ popup.disabled => Len(popup'.handlers) = Len(popup.handlers)
     /\ (\E i \in 1..Len(popup.handlers) :
            popup.handlers[i].pc = "setTimeout" /\ popup'.handlers[i].pc = "done")
          => ~popup'.disabled]_vars

(***************************************************************************)
(* src/options/options.js.  Under OptionsSpec the user works on the        *)
(* options page: the page is loaded, rows are added, duplicated and        *)
(* deleted, the edit modal is opened, typed into and saved, a file is      *)
(* imported, the defaults are restored.  The manager's calls are the       *)
(* operators above, run in the page's context.  this.templates is the      *)
(* array getTemplates() returned: a copy of the stored value or, while the *)
(* templates key is absent, the DEFAULT_TEMPLATES array itself, which the  *)
(* manager's calls and the controller's push, splice and assignment then   *)
(* all change.  The open modal covers the page, so the page's buttons are  *)
(* clicked while it is closed.                                             *)
(***************************************************************************)
\* most operations of the page that call the manager, its loading included
MaxOperations == 2

\* this.templates
thisTemplates == IF controller.shared THEN DEFAULT_TEMPLATES ELSE controller.templates

\* this.templates once a manager call has left `effect`
heldAfter(effect) == IF controller.shared THEN effect.defaults ELSE controller.templates

\* names every object inherits from Object.prototype
ObjectPrototype ==
  {"constructor", "toString", "toLocaleString", "valueOf", "hasOwnProperty",
   "isPrototypeOf", "propertyIsEnumerable", "__proto__"}

\* a plain object is the sequence of its own properties in insertion order.  No key
\* of the model is integer-like (such keys come first in Object.values) and none set
\* is "__proto__" (whose assignment would replace the prototype)
Property(k, value) == [k |-> k, value |-> value]

\* whether object[k] is truthy: an own property (each one set here is an object) or a
\* member inherited from Object.prototype
truthy(object, k) ==
  (\E i \in 1..Len(object) : object[i].k = k) \/ k \in ObjectPrototype

\* object[k] = value
assign(object, k, value) ==
  IF \E i \in 1..Len(object) : object[i].k = k
    THEN [i \in 1..Len(object) |-> IF object[i].k = k THEN Property(k, value) ELSE object[i]]
    ELSE Append(object, Property(k, value))

\* Object.values(object)
ObjectValues(object) == [i \in 1..Len(object) |-> object[i].value]

RECURSIVE seedByKey(_, _)
\* (template.variables || []).forEach(v => { byKey[v.key] = { ...v }; })
seedByKey(byKey, variables) ==
  IF Len(variables) = 0 THEN byKey
  ELSE seedByKey(assign(byKey, ToStr(Head(variables).key), Head(variables)), Tail(variables))

RECURSIVE addMissing(_, _)
\* keys.forEach(k => { if (!this.modal.varsByKey[k]) this.modal.varsByKey[k] = {...}; })
addMissing(varsByKey, keys) ==
  IF Len(keys) = 0 THEN varsByKey
  ELSE addMissing(IF truthy(varsByKey, Head(keys)) THEN varsByKey
                  ELSE assign(varsByKey, Head(keys),
                              Variable(Str(Head(keys)), Str(Head(keys)), Str(""), Str("text"),
                                       Arr(<< >>))),
                  Tail(keys))

\* this.modal.varsByKey after refreshModalVariables() with bodyText in the body field
refreshModalVariables(varsByKey, bodyText) ==
  LET keys == extractVariableKeys(Str(bodyText))
      kept == SelectSeq(varsByKey, LAMBDA property : \E i \in 1..Len(keys) : keys[i] = property.k)
  IN addMissing(kept, keys)

\* template.name || '' and template.body || ''
orEmpty(x) == IF Falsy(x) THEN "" ELSE ToStr(x)

\* this.modal after openTemplateModal(index) on the list `templates`
openTemplateModal(templates, index) ==
  LET template == templates[index]
      byKey == seedByKey(<< >>, IF IsArray(template.variables) THEN template.variables.v ELSE << >>)
  IN [isOpen |-> TRUE, index |-> index, name |-> orEmpty(template.name),
      body |-> orEmpty(template.body),
      varsByKey |-> refreshModalVariables(byKey, orEmpty(template.body))]

\* error.message of the Error a manager call threw for `template` (or the id `template.id`)
errorMessage(effect, template) ==
  IF effect.outcome = "id_conflict"
    THEN "Template with ID \"" \o ToStr(template.id) \o "\" already exists"
  ELSE IF effect.outcome = "name_conflict"
    THEN "Template with name \"" \o ToStr(template.name) \o "\" already exists"
  ELSE IF effect.outcome = "not_found"
    THEN "Template with ID \"" \o ToStr(template.id) \o "\" not found"
  ELSE IF effect.outcome = "storage_error"
    THEN "storage write failed"
  ELSE IF effect.message # ""
    THEN effect.message
  ELSE "Invalid template"

\* an operation of the page has completed: the manager left `effect`, this.templates
\* is `templates`, the modal and the status line are as given
Operation(call, effect, shared, templates, modal, status) ==
  /\ calls < MaxOperations
  /\ calls' = calls + 1
  /\ storage' = effect.storage
  /\ DEFAULT_TEMPLATES' = IF shared THEN templates ELSE effect.defaults
  /\ generated' = effect.generated
  /\ writeFailures' = IF effect.outcome = "storage_error"
                        THEN writeFailures + 1 ELSE writeFailures
  /\ last' = [op |-> call.op, id |-> call.id, input |-> call.input,
              outcome |-> effect.outcome, returned |-> effect.returned,
              message |-> effect.message]
  /\ controller' = [loaded |-> TRUE, shared |-> shared,
                    templates |-> IF shared THEN << >> ELSE templates,
                    modal |-> modal, status |-> status]
  /\ UNCHANGED <<pending, popup, content>>

\* the modal changed and nothing else
ModalStep(modal) ==
  /\ controller' = [controller EXCEPT !.modal = modal]
  /\ UNCHANGED <<storage, DEFAULT_TEMPLATES, generated, writeFailures, calls, last,
                 pending, popup, content>>

\* the options page is opened: schema.js is evaluated afresh and new OptionsController()
\* runs loadTemplates(), which calls getTemplates()
LoadTemplates ==
  Operation(Call("load", Undef, 0),
            Effect("ok", storage, ShippedTemplates, generated, << >>),
            ~storage.present,
            IF storage.present THEN storage.value.v ELSE ShippedTemplates,
            ClosedModal,
            "Loaded " \o ToString(IF storage.present THEN Len(storage.value.v)
                                  ELSE Len(ShippedTemplates)) \o " templates")

\* const addedTemplate = await addTemplate(template); this.templates.push(addedTemplate);
\* this.showStatus(done); this.openTemplateModal(this.templates.length - 1), and the
\* catch block that shows `failed` with the error's message
pushAdded(call, effect, template, done, failed) ==
  IF effect.outcome = "ok"
    THEN Operation(call, effect, controller.shared,
                   Append(heldAfter(effect), effect.returned[1]),
                   openTemplateModal(Append(heldAfter(effect), effect.returned[1]),
                                     Len(heldAfter(effect)) + 1),
                   done)
    ELSE Operation(call, effect, controller.shared, heldAfter(effect), controller.modal,
                   failed \o errorMessage(effect, template))

\* the page's buttons can be clicked
PageReady == controller.loaded /\ ~controller.modal.isOpen

AddNewTemplate ==
  /\ PageReady
  /\ Len(getTemplates) < MaxTemplates
  /\ generated < MaxGenerated
  /\ \E writeOk \in WriteOutcomes :
       pushAdded(Call("addNew", Undef, 0), addTemplate(AddInputs[1], writeOk),
                 [AddInputs[1] EXCEPT !.id = Str(randomUUID(generated + 1))],
                 "Template added successfully", "Failed to add template: ")

\* { ...originalTemplate, name: `${originalTemplate.name} (Copy)` }
duplicatedRow(originalTemplate) ==
  [originalTemplate EXCEPT !.name = Str(ToStr(originalTemplate.name) \o " (Copy)")]

\* a click on the Duplicate button of a row: handleTemplateAction, duplicateTemplate(index)
DuplicateRow ==
  /\ PageReady
  /\ Len(getTemplates) < MaxTemplates
  /\ \E index \in 1..Len(thisTemplates), writeOk \in WriteOutcomes :
       pushAdded(Call("duplicateRow", thisTemplates[index].id, index),
                 addTemplate(duplicatedRow(thisTemplates[index]), writeOk),
                 duplicatedRow(thisTemplates[index]),
                 "Template duplicated successfully", "Failed to duplicate template: ")

\* await deleteTemplate(templateId); this.templates.splice(index, 1), and the catch block
spliceDeleted(call, effect, index) ==
  IF effect.outcome = "ok"
    THEN Operation(call, effect, controller.shared, splice(heldAfter(effect), index),
                   controller.modal, "Template deleted successfully")
    ELSE Operation(call, effect, controller.shared, heldAfter(effect), controller.modal,
                   "Failed to delete template: " \o errorMessage(effect, thisTemplates[index]))

\* a click on the Delete button of a row, confirmed: handleTemplateAction, deleteTemplate(index)
DeleteRow ==
  /\ PageReady
  /\ \E index \in 1..Len(thisTemplates), writeOk \in WriteOutcomes :
       spliceDeleted(Call("deleteRow", thisTemplates[index].id, index),
                     deleteTemplate(thisTemplates[index].id, writeOk), index)

\* a click on a row outside its buttons
OpenTemplateModal ==
  /\ PageReady
  /\ \E index \in 1..Len(thisTemplates) :
       ModalStep(openTemplateModal(thisTemplates, index))

\* what the user types into the modal's body field
ModalBodies == {"Ask about {{topic}} and {{ topic }}", "Call {{constructor}} for {{audience}}"}

\* what the user types into the modal's name field
ModalNames == {" Renamed "}

\* the body field is edited: its input event runs refreshModalVariables()
EditModalBody ==
  /\ controller.modal.isOpen
  /\ \E bodyText \in ModalBodies :
       ModalStep([controller.modal EXCEPT
                    !.body = bodyText,
                    !.varsByKey = refreshModalVariables(@, bodyText)])

\* the name field is edited
EditModalName ==
  /\ controller.modal.isOpen
  /\ \E name \in ModalNames : ModalStep([controller.modal EXCEPT !.name = name])

\* a click on the modal's close or cancel button or on its backdrop
CloseTemplateModal ==
  /\ controller.modal.isOpen
  /\ ModalStep(ClosedModal)

\* { name, body, variables } of saveTemplateFromModal
modalUpdates(modal) ==
  [name |-> Str(trim(modal.name)), body |-> Str(modal.body),
   variables |-> Arr(ObjectValues(modal.varsByKey))]

\* const updated = await updateTemplate(orig.id, {...}); this.templates[idx] = updated;
\* this.closeTemplateModal(), and the catch block
assignUpdated(call, effect, idx, updates) ==
  IF effect.outcome = "ok"
    THEN Operation(call, effect, controller.shared,
                   [heldAfter(effect) EXCEPT ![idx] = effect.returned[1]],
                   ClosedModal, "Template saved")
    ELSE Operation(call, effect, controller.shared, heldAfter(effect), controller.modal,
                   "Failed to save template: "
                     \o errorMessage(effect, mergeUpdates(thisTemplates[idx], updates)))

\* a click on the modal's save button
SaveTemplateFromModal ==
  /\ controller.modal.isOpen
  /\ \E writeOk \in WriteOutcomes :
       assignUpdated(Call("saveModal", thisTemplates[controller.modal.index].id,
                          controller.modal.index),
                     updateTemplate(thisTemplates[controller.modal.index].id,
                                    modalUpdates(controller.modal), writeOk),
                     controller.modal.index, modalUpdates(controller.modal))

\* this.templates = await getTemplates() after a manager call that wrote the store
reloaded(call, effect, done, failed) ==
  IF effect.outcome = "ok"
    THEN Operation(call, effect, FALSE, effect.storage.value.v, controller.modal, done)
    ELSE Operation(call, effect, controller.shared, heldAfter(effect), controller.modal,
                   failed \o errorMessage(effect, NonObjectTemplate("undefined")))

\* a file is chosen in the import field
ImportTemplatesFromFile ==
  /\ PageReady
  /\ \E i \in 1..Len(ImportInputs), writeOk \in WriteOutcomes :
       /\ generated + Len(ImportInputs[i].e) <= MaxGenerated
       /\ reloaded(Call("importFile", Undef, i), importTemplates(ImportInputs[i], writeOk),
                   "Imported " \o ToString(Len(ImportInputs[i].e)) \o " templates successfully",
                   "Failed to import templates: ")

\* a click on the reset button, confirmed
ResetPage ==
  /\ PageReady
  /\ \E writeOk \in WriteOutcomes :
       reloaded(Call("resetPage", Undef, 0), resetToDefaults(writeOk),
                "Templates reset to defaults successfully", "Failed to reset templates: ")

OptionsNext ==
  \/ LoadTemplates
  \/ AddNewTemplate
  \/ DuplicateRow
  \/ DeleteRow
  \/ OpenTemplateModal
  \/ EditModalBody
  \/ EditModalName
  \/ CloseTemplateModal
  \/ SaveTemplateFromModal
  \/ ImportTemplatesFromFile
  \/ ResetPage

OptionsSpec == Init /\ [][OptionsNext]_vars

\* the persisted collection as the page's context reads it
Persisted == getTemplates

\* C27: after every completed operation of the options page the controller's list equals
\* the persisted collection, the same records in the same order
C27_ListEqualsPersisted == controller.loaded => thisTemplates = Persisted

\* the suffixed name of the row a Duplicate click was made on
SuffixedName(index) == Str(ToStr(thisTemplates[index].name) \o " (Copy)")

\* C22: a Duplicate click on a row whose suffixed name is not taken, the store taking the
\* write, persists a clone of the row's template with a new id and the suffixed name,
\* appends it to the page's list and reports 'Template duplicated successfully'
C22_DuplicateRowClones ==
  [][(/\ last'.op = "duplicateRow"
      /\ last'.outcome # "storage_error"
      /\ SuffixedName(last'.input) \notin Names(Persisted))
       => /\ last'.outcome = "ok"
          /\ controller'.status = "Template duplicated successfully"
          /\ Len(Stored(storage')) = Len(Persisted) + 1
          /\ LET clone == Stored(storage')[Len(Stored(storage'))]
                 original == thisTemplates[last'.input]
             IN /\ clone.id \notin Ids(Persisted) \cup Ids(thisTemplates)
                /\ clone.name = SuffixedName(last'.input)
                /\ clone.body = original.body
                /\ clone.variables = original.variables
                /\ (IF controller'.shared THEN DEFAULT_TEMPLATES' ELSE controller'.templates)
                     = Append(thisTemplates, clone)]_vars

\* the keys a saved template declares, in order
DeclaredKeys(template) == [i \in 1..Len(template.variables.v) |-> template.variables.v[i].key.v]

\* C24: after every successful save from the edit modal the saved template's declared
\* variable keys are exactly the distinct placeholder keys of its saved body, each once
C24_SavedVariablesMatchBody ==
  [][(last'.op = "saveModal" /\ last'.outcome = "ok")
       => LET saved == last'.returned[1]
              declared == DeclaredKeys(saved)
              keys == extractVariableKeys(saved.body)
          IN /\ Len(declared) = Len(keys)
             /\ {declared[i] : i \in 1..Len(declared)} = {keys[i] : i \in 1..Len(keys)}]_vars

\* C24 for bodies none of whose placeholders is named like a member of Object.prototype
C24_OrdinaryKeysMatchBody ==
  [][(/\ last'.op = "saveModal"
      /\ last'.outcome = "ok"
      /\ \A i \in 1..Len(extractVariableKeys(last'.returned[1].body)) :
            extractVariableKeys(last'.returned[1].body)[i] \notin ObjectPrototype)
       => LET saved == last'.returned[1]
              declared == DeclaredKeys(saved)
              keys == extractVariableKeys(saved.body)
          IN /\ Len(declared) = Len(keys)
             /\ {declared[i] : i \in 1..Len(declared)} = {keys[i] : i \in 1..Len(keys)}]_vars

(***************************************************************************)
(* Manager calls that overlap.  Under RaceSpec one page (one evaluation of *)
(* schema.js) starts two calls of addTemplate or deleteTemplate, after     *)
(* some calls that ran one at a time.  A call stops at `await              *)
(* getTemplates()` and at `await saveTemplates(templates)`: what lies      *)
(* between the two (the checks, the push or splice, the validation and the *)
(* sending of the write) runs without interruption, and                    *)
(* chrome.storage.sync applies the writes in the order they are sent.      *)
(***************************************************************************)
\* most calls started
MaxCallers == 2

\* the calls that overlap: "Add template" and the deletion of two shipped templates
RaceCalls ==
  {Call("add", Undef, 1), Call("delete", Str("seo-brief"), 0),
   Call("delete", Str("code-review"), 0)}

\* a call that has read: `templates` is what the array held when getTemplates() returned
\* it, `shared` tells that the array is DEFAULT_TEMPLATES itself, `seen` is the number
\* of calls that had written by then
Caller(call, templates, shared, seen) ==
  [call |-> call, pc |-> "read", templates |-> templates, shared |-> shared, seen |-> seen,
   outcome |-> "", returned |-> << >>]

\* the calls that have written or thrown
Written == {i \in 1..Len(pending) : pending[i].pc = "done"}

\* a call is started and its `await getTemplates()` settles
ReadTemplates ==
  /\ Len(pending) < MaxCallers
  /\ \E call \in RaceCalls :
       pending' = Append(pending, Caller(call, getTemplates, ReturnsDefaultsArray,
                                         Cardinality(Written)))
  /\ UNCHANGED <<storage, DEFAULT_TEMPLATES, generated, writeFailures, calls, last,
                 controller, popup, content>>

\* the array a call that has read works on: its own copy, or DEFAULT_TEMPLATES as it is now
arrayOf(caller) == IF caller.shared THEN DEFAULT_TEMPLATES ELSE caller.templates

\* the rest of a call that has read
afterRead(caller, writeOk) ==
  IF caller.call.op = "add"
    THEN addTo(arrayOf(caller), caller.shared, AddInputs[caller.call.input], writeOk)
    ELSE deleteFrom(arrayOf(caller), caller.shared, caller.call.id, writeOk)

\* call i has returned or thrown, leaving `effect`
Settled(i, effect) ==
  /\ storage' = effect.storage
  /\ DEFAULT_TEMPLATES' = effect.defaults
  /\ generated' = effect.generated
  /\ writeFailures' = IF effect.outcome = "storage_error"
                        THEN writeFailures + 1 ELSE writeFailures
  /\ last' = [op |-> pending[i].call.op, id |-> pending[i].call.id,
              input |-> pending[i].call.input, outcome |-> effect.outcome,
              returned |-> effect.returned, message |-> effect.message]
  /\ pending' = [pending EXCEPT ![i].pc = "done", ![i].outcome = effect.outcome,
                                ![i].returned = effect.returned]
  /\ UNCHANGED <<calls, controller, popup, content>>

\* a call that has read goes on to its write
WriteTemplates ==
  \E i \in 1..Len(pending), writeOk \in WriteOutcomes :
    /\ pending[i].pc = "read"
    /\ generated < MaxGenerated
    /\ Settled(i, afterRead(pending[i], writeOk))

\* before the overlapping calls: a reset that ran on its own
ResetAlone == pending = NoCalls /\ ResetToDefaults

\* before the overlapping calls: a deletion that ran on its own
DeleteAlone == pending = NoCalls /\ DeleteTemplate

RaceNext ==
  \/ ResetAlone
  \/ DeleteAlone
  \/ ReadTemplates
  \/ WriteTemplates

RaceSpec == Init /\ [][RaceNext]_vars

\* the mutation of `caller` succeeds when it runs alone on the collection it read
ValidAlone(caller) ==
  IF caller.call.op = "add"
    THEN ~hasDuplicateName(caller.templates, AddInputs[caller.call.input])
    ELSE findIndex(caller.templates, caller.call.id) # 0

\* the collection `caller` writes when it runs alone on the collection it read;
\* `added` is the record an add returned
WrittenAlone(caller, added) ==
  IF caller.call.op = "add"
    THEN caller.templates \o added
    ELSE splice(caller.templates, findIndex(caller.templates, caller.call.id))

\* the change of the `earlier` call is not in `templates`
ChangeAbsent(earlier, later, templates) ==
  IF earlier.call.op = "add"
    THEN \A i \in 1..Len(earlier.returned) : earlier.returned[i].id \notin Ids(templates)
    ELSE later.call = earlier.call \/ earlier.call.id \in Ids(templates)

\* the step in which call i is the later of two calls to write, both having read before
\* either wrote, the store taking both writes and each mutation valid on what it read
LaterWrite(i) ==
  /\ Len(pending) = 2
  /\ pending[2].seen = 0
  /\ pending[i].pc = "read"
  /\ pending'[i].pc = "done"
  /\ pending[3 - i].pc = "done"
  /\ pending[3 - i].outcome # "storage_error"
  /\ pending'[i].outcome # "storage_error"
  /\ ValidAlone(pending[1])
  /\ ValidAlone(pending[2])

\* C21: when two manager mutations both read the persisted collection before either
\* writes it back, both report success and the persisted collection after both is
\* exactly what the later write built from its own read: the earlier change is absent
C21_LastWriteWins ==
  [][\A i \in 1..2 :
       LaterWrite(i)
         => /\ pending'[1].outcome = "ok"
            /\ pending'[2].outcome = "ok"
            /\ Stored(storage') = WrittenAlone(pending[i], pending'[i].returned)
            /\ ChangeAbsent(pending[3 - i], pending[i], Stored(storage'))]_vars

\* C21 for calls that read a stored array, each holding its own copy
C21_LastWriteWinsOnCopies ==
  [][\A i \in 1..2 :
       (LaterWrite(i) /\ ~pending[1].shared /\ ~pending[2].shared)
         => /\ pending'[1].outcome = "ok"
            /\ pending'[2].outcome = "ok"
            /\ Stored(storage') = WrittenAlone(pending[i], pending'[i].returned)
            /\ ChangeAbsent(pending[3 - i], pending[i], Stored(storage'))]_vars

(***************************************************************************)
(* The life of a template.  Under LifecycleSpec the user of the options    *)
(* page removes templates, adds the new template and restores the          *)
(* defaults, and opens the popup in between, as often as they like; each   *)
(* call runs on its own.                                                   *)
(***************************************************************************)
\* a call took place, as Apply, the calls not being counted
Recorded(call, effect) ==
  /\ storage' = effect.storage
  /\ DEFAULT_TEMPLATES' = effect.defaults
  /\ generated' = effect.generated
  /\ writeFailures' = IF effect.outcome \in {"storage_error", "swallowed"}
                        THEN writeFailures + 1 ELSE writeFailures
  /\ last' = [op |-> call.op, id |-> call.id, input |-> call.input,
              outcome |-> effect.outcome, returned |-> effect.returned,
              message |-> effect.message]
  /\ UNCHANGED <<calls, pending, controller, popup, content>>

\* "Add template" on the options page
CreateTemplate ==
  /\ Len(getTemplates) < MaxTemplates
  /\ generated < MaxGenerated
  /\ \E writeOk \in WriteOutcomes :
       Recorded(Call("add", Undef, 1), addTemplate(AddInputs[1], writeOk))

\* a row of the options page is deleted
RemoveTemplate ==
  \E i \in 1..Len(getTemplates), writeOk \in WriteOutcomes :
    Recorded(Call("delete", getTemplates[i].id, 0), deleteTemplate(getTemplates[i].id, writeOk))

\* "Reset to defaults" on the options page
RestoreDefaults ==
  \E writeOk \in WriteOutcomes :
    Recorded(Call("reset", Undef, 0), resetToDefaults(writeOk))

\* the popup is opened: loadState() runs initializeStorage()
OpenPopup ==
  \E writeOk \in WriteOutcomes :
    Recorded(Call("initialize", Undef, 0), initializeStorage(writeOk))

LifecycleNext ==
  \/ CreateTemplate
  \/ RemoveTemplate
  \/ RestoreDefaults
  \/ OpenPopup

LifecycleSpec == Init /\ [][LifecycleNext]_vars

\* the calls that may put a record into the persisted collection
Putters == {"add", "import", "reset"}

\* C23: a template removed by a successful remove(id) stays removed: the call that
\* follows the remove, unless it is an add, an import or a reset, leaves no record with
\* that id in the persisted collection; opening the popup is such a call
C23_RemovedStaysRemoved ==
  [][(last.op = "delete" /\ last.outcome = "ok" /\ last'.op \notin Putters)
       => last.id \notin Ids(Stored(storage'))]_vars

\* C23 while a template is left: opening the popup on a store that holds at least one
\* template changes nothing
C23_PopupKeepsNonEmptyStore ==
  [][(last'.op = "initialize" /\ storage.present /\ Len(Stored(storage)) > 0)
       => storage' = storage]_vars

====
